---------------------------- MODULE Spec2Model ----------------------------
(***************************************************************************)
(* A model of the background service worker of the context-vault browser   *)
(* extension: the OAuth tab coordinator (src/background/oauth.ts) and the   *)
(* REST gateway client (src/background/api-client.ts) with the message     *)
(* router's dispatch and its save_settings (src/background/index.ts).      *)
(*                                                                         *)
(* The worker is single threaded: every action below is one task of the    *)
(* event loop together with the microtasks it queues, i.e. the code that   *)
(* runs between two suspension points (a chrome.* callback, a fetch, a     *)
(* timer).                                                                 *)
(***************************************************************************)
EXTENDS Integers, Sequences, FiniteSets, TLC

(***************************************************************************)
(* Bounds of the model.                                                    *)
(***************************************************************************)
\* number of startGoogleOAuth calls in one behaviour
MaxFlows == 2
\* number of gateway calls (apiFetch) that run at the same time
MaxCalls == 2
\* number of storage writes of rate-limit headers that are pending at the same time
MaxPendingWrites == 1
\* number of half seconds the clock advances in one behaviour
MaxTicks == 2

(***************************************************************************)
(*                       OAuth coordinator (oauth.ts)                      *)
(***************************************************************************)
VARIABLES
    pendingTabId,      \* oauth.ts:12  tab id, NoTab for null
    pendingResolve,    \* oauth.ts:13  flow whose resolve() is held, NoFlow for null
    pendingReject,     \* oauth.ts:14  flow whose reject() is held, NoFlow for null
    pendingTimeout,    \* oauth.ts:15  timer handle (the flow that armed it), NoFlow for null
    timers,            \* deadline timers armed by setTimeout and neither cleared nor fired
    creating,          \* flows whose chrome.tabs.create callback has not been delivered
    openTabs,          \* sign-in tabs opened by the coordinator that still exist
    closeRequested,    \* open tabs for which chrome.tabs.remove has been called
    listeners,         \* registered chrome.tabs.onRemoved listeners, in registration order
    promise,           \* per flow: the state of the promise startGoogleOAuth returned
    settleCalls,       \* per flow: how often its resolve()/reject() has been invoked
    observed,          \* per flow: the module-level state at the moment its
                       \* resolve()/reject() was invoked
    nextFlow           \* the next startGoogleOAuth call

oauthVars == <<pendingTabId, pendingResolve, pendingReject, pendingTimeout, timers,
               creating, openTabs, closeRequested, listeners, promise, settleCalls,
               observed, nextFlow>>

Flows == 1..MaxFlows

\* null of pendingResolve / pendingReject / pendingTimeout
NoFlow == 0
\* null of pendingTabId
NoTab == 0

\* chrome.tabs.create gives every tab a fresh id: the tab of flow f
TabOf(f) == f
\* a tab the coordinator did not open
ForeignTab == MaxFlows + 1

CALLBACK_HOST == "app.context-vault.com"
CALLBACK_PATH == "/auth/callback"

\* the values of changeInfo.url the model draws from: no url in the change, a
\* string new URL() rejects, and parsed URLs
NoUrl == [kind |-> "none"]
BadUrl == [kind |-> "unparsable"]
Url(h, p, ht, hs, qt) ==
    [kind |-> "url", host |-> h, pathname |-> p, hashToken |-> ht,
     hashSecret |-> hs, queryToken |-> qt]
\* "" stands for a parameter that is not in the fragment / query string
Tokens == {"", "tok"}
Secrets == {"", "sec"}
Urls == {NoUrl, BadUrl,
         Url("accounts.google.com", CALLBACK_PATH, "tok", "", ""),
         Url(CALLBACK_HOST, "/auth/callback/extra", "tok", "", "")} \cup
        {Url(CALLBACK_HOST, CALLBACK_PATH, ht, hs, qt) :
             ht \in Tokens, hs \in Secrets, qt \in Tokens}

\* promise states; the rejected ones carry the Error message of the rejection
Unstarted == [state |-> "unstarted"]
Pending == [state |-> "pending"]
Resolved(k, s) == [state |-> "resolved", apiKey |-> k, encryptionSecret |-> s]
Rejected(m) == [state |-> "rejected", message |-> m]
MSG_IN_PROGRESS == "Sign-in already in progress. Please complete or close the existing sign-in tab."
MSG_TIMED_OUT == "Sign-in timed out. Please try again."
MSG_FAILED_OPEN == "Failed to open sign-in tab."
MSG_CANCELLED == "Sign-in cancelled."

\* The coordinator's module-level state and what its functions touch, as one value
OState ==
    [tab |-> pendingTabId, res |-> pendingResolve, rej |-> pendingReject,
     tmo |-> pendingTimeout, timers |-> timers, closeReq |-> closeRequested,
     listeners |-> listeners, promise |-> promise, calls |-> settleCalls,
     observed |-> observed]

SetOState(st) ==
    /\ pendingTabId' = st.tab
    /\ pendingResolve' = st.res
    /\ pendingReject' = st.rej
    /\ pendingTimeout' = st.tmo
    /\ timers' = st.timers
    /\ closeRequested' = st.closeReq
    /\ listeners' = st.listeners
    /\ promise' = st.promise
    /\ settleCalls' = st.calls
    /\ observed' = st.observed

\* what a continuation that is invoked finds in the module-level variables
NotInvoked == [invoked |-> FALSE]
View(st) ==
    [invoked |-> TRUE, tab |-> st.tab, res |-> st.res, rej |-> st.rej, tmo |-> st.tmo,
     timers |-> st.timers, closeReq |-> st.closeReq]

\* Invoking flow f's resolve() or reject() with outcome o: a promise settles once,
\* later invocations leave it as it is; NoFlow is the null continuation (rej?.())
Invoke(st, f, o) ==
    IF f = NoFlow THEN st
    ELSE [st EXCEPT !.calls[f] = @ + 1,
                    !.promise[f] = IF @ = Pending THEN o ELSE @,
                    !.observed[f] = View(st)]

\* cleanup(), oauth.ts:22-30
cleanup(st) ==
    [st EXCEPT !.timers = IF st.tmo # NoFlow THEN @ \ {st.tmo} ELSE @,
               !.tmo = NoFlow,
               !.tab = NoTab,
               !.res = NoFlow,
               !.rej = NoFlow]

\* chrome.tabs.remove(tabId): asks the browser to close the tab; the rejection for
\* a tab that is already gone is swallowed by .catch
tabsRemove(st, tabId) ==
    IF tabId \in openTabs THEN [st EXCEPT !.closeReq = @ \cup {tabId}] ELSE st

\* reject(err) with the teardown forgotten: the continuation stays held
reject_NoCleanup(st, msg) ==
    LET rej == st.rej
        tabId == st.tab
        s2 == IF tabId # NoTab THEN tabsRemove(st, tabId) ELSE st
    IN  Invoke(s2, rej, Rejected(msg))

\* reject(err) calling the continuation first and tearing down afterwards
reject_ContinuationFirst(st, msg) ==
    LET tabId == st.tab
        s1 == cleanup(Invoke(st, st.rej, Rejected(msg)))
    IN  IF tabId # NoTab THEN tabsRemove(s1, tabId) ELSE s1

\* reject(err), oauth.ts:32-42
reject(st, msg) ==
    LET rej == st.rej
        tabId == st.tab
        s1 == cleanup(st)
        s2 == IF tabId # NoTab THEN tabsRemove(s1, tabId) ELSE s1
    IN  Invoke(s2, rej, Rejected(msg))

\* startGoogleOAuth(), oauth.ts:85-99 and the call of chrome.tabs.create at 101:
\* the guard, then the promise executor, which runs synchronously
StartGoogleOAuth ==
    /\ nextFlow <= MaxFlows
    /\ LET f == nextFlow IN
       /\ nextFlow' = f + 1
       /\ IF pendingTabId # NoTab
          THEN /\ promise' = [promise EXCEPT ![f] = Rejected(MSG_IN_PROGRESS)]
               /\ UNCHANGED <<pendingTabId, pendingResolve, pendingReject,
                              pendingTimeout, timers, creating, openTabs,
                              closeRequested, listeners, settleCalls, observed>>
          ELSE /\ promise' = [promise EXCEPT ![f] = Pending]
               /\ pendingResolve' = f
               /\ pendingReject' = f
               /\ pendingTimeout' = f
               /\ timers' = timers \cup {f}
               /\ creating' = creating \cup {f}
               /\ UNCHANGED <<pendingTabId, openTabs, closeRequested, listeners,
                              settleCalls, observed>>

\* the callback of chrome.tabs.create, oauth.ts:101-118; ok = FALSE when
\* chrome.runtime.lastError is set or the tab has no id
TabCreated(f, ok) ==
    /\ f \in creating
    /\ creating' = creating \ {f}
    /\ IF ~ok
       THEN /\ SetOState(reject(OState, MSG_FAILED_OPEN))
            /\ UNCHANGED openTabs
       ELSE /\ openTabs' = openTabs \cup {TabOf(f)}
            /\ pendingTabId' = TabOf(f)
            /\ listeners' = Append(listeners, f)
            /\ UNCHANGED <<pendingResolve, pendingReject, pendingTimeout, timers,
                           closeRequested, promise, settleCalls, observed>>
    /\ UNCHANGED nextFlow

\* the deadline timer armed at oauth.ts:97-99 fires
DeadlineFires(f) ==
    /\ f \in timers
    /\ SetOState(reject([OState EXCEPT !.timers = @ \ {f}], MSG_TIMED_OUT))
    /\ UNCHANGED <<creating, openTabs, nextFlow>>

\* handleOAuthTabUpdate reading the token with searchParams, from the query string
handleOAuthTabUpdate_QueryToken(st, tabId, url) ==
    IF st.tab = NoTab \/ tabId # st.tab THEN st
    ELSE IF url.kind = "none" THEN st
    ELSE IF url.kind = "unparsable" THEN st
    ELSE IF url.host # CALLBACK_HOST \/ url.pathname # CALLBACK_PATH THEN st
    ELSE LET token == url.queryToken
             encryptionSecret == url.hashSecret
             res == st.res
             tabToClose == st.tab
             s1 == tabsRemove(cleanup(st), tabToClose)
         IN  IF token = ""
             THEN Invoke(s1, res, Resolved("", encryptionSecret))
             ELSE Invoke(s1, res, Resolved(token, encryptionSecret))

\* handleOAuthTabUpdate(tabId, changeInfo), oauth.ts:45-82
handleOAuthTabUpdate(st, tabId, url) ==
    IF st.tab = NoTab \/ tabId # st.tab THEN st
    ELSE IF url.kind = "none" THEN st
    ELSE IF url.kind = "unparsable" THEN st
    ELSE IF url.host # CALLBACK_HOST \/ url.pathname # CALLBACK_PATH THEN st
    ELSE LET token == url.hashToken
             encryptionSecret == url.hashSecret
             res == st.res
             tabToClose == st.tab
             s1 == tabsRemove(cleanup(st), tabToClose)
         IN  IF token = ""
             THEN Invoke(s1, res, Resolved("", encryptionSecret))
             ELSE Invoke(s1, res, Resolved(token, encryptionSecret))

\* a chrome.tabs.onUpdated event
TabUpdated(tabId, url) ==
    /\ tabId \in openTabs \cup {ForeignTab}
    /\ SetOState(handleOAuthTabUpdate(OState, tabId, url))
    /\ UNCHANGED <<creating, openTabs, nextFlow>>

\* onRemoved without the test of the removed tab: any removal cancels
onRemoved_AnyTab(st, self, removedTabId) ==
    LET s1 == [st EXCEPT !.listeners = SelectSeq(@, LAMBDA l : l # self)]
    IN  IF s1.rej # NoFlow
        THEN Invoke(cleanup(s1), s1.rej, Rejected(MSG_CANCELLED))
        ELSE s1

\* one onRemoved listener, oauth.ts:109-117; self is the listener's registration
onRemoved(st, self, removedTabId) ==
    IF removedTabId # st.tab THEN st
    ELSE LET s1 == [st EXCEPT !.listeners = SelectSeq(@, LAMBDA l : l # self)]
         IN  IF s1.rej # NoFlow
             THEN Invoke(cleanup(s1), s1.rej, Rejected(MSG_CANCELLED))
             ELSE s1

\* the listeners registered when the event is dispatched run in registration order
RECURSIVE dispatchRemoved(_, _, _)
dispatchRemoved(st, ls, removedTabId) ==
    IF ls = <<>> THEN st
    ELSE dispatchRemoved(onRemoved(st, Head(ls), removedTabId), Tail(ls), removedTabId)

\* a chrome.tabs.onRemoved event: the user closed the tab, or the browser closed it
\* after chrome.tabs.remove
TabRemoved(tabId) ==
    /\ tabId \in openTabs \cup {ForeignTab}
    /\ openTabs' = openTabs \ {tabId}
    /\ SetOState(dispatchRemoved([OState EXCEPT !.closeReq = @ \ {tabId}],
                                  listeners, tabId))
    /\ UNCHANGED <<creating, nextFlow>>

(***************************************************************************)
(*                     Gateway client (api-client.ts)                      *)
(***************************************************************************)
VARIABLES
    store,             \* chrome.storage.local: serverUrl, apiKey, encryptionSecret
    cachedSettings,    \* api-client.ts:19, NoSettings for null
    cachedRateLimit,   \* api-client.ts:56, NoRateLimit for null
    rlStored,          \* chrome.storage.local: rateLimitRemaining, rateLimitReset
    rlWrites,          \* storage writes issued by updateRateLimitCache, not yet completed
    nowHalf,           \* the clock, in half seconds: Date.now() = 500 * nowHalf
    call               \* per running gateway call: where apiFetch stands and what it holds

apiVars == <<store, cachedSettings, cachedRateLimit, rlStored, rlWrites, nowHalf, call>>

Calls == 1..MaxCalls

\* --- strings ------------------------------------------------------------
\* A message is the sequence of its words in lower case (the tests on messages are
\* all case-insensitive, /.../i, or made on one fixed string).
MSG_FAILED_TO_FETCH == <<"failed", "to", "fetch">>
MSG_ABORTED == <<"signal", "is", "aborted", "without", "reason">>
MSG_USER_ABORTED == <<"the", "user", "aborted", "a", "request.">>
MSG_REQUEST_TIMED_OUT == <<"request", "timed", "out", "after", "15000ms">>
MSG_NULL_BODY == <<"cannot", "read", "properties", "of", "null", "(reading", "'error')">>
MSG_NO_SERVER == <<"not", "configured", "-", "set", "server", "url", "in", "extension", "settings">>
MSG_NO_KEY == <<"not", "configured", "-", "set", "api", "key", "in", "extension", "settings">>
MSG_RATE_EXHAUSTED == <<"rate", "limit", "exhausted.", "resets", "at", "<time>.">>
MSG_API == <<"<body.error", "or", "api", "error:", "status>">>
MSG_UNREACHABLE ==
    <<"could", "not", "reach", "the", "server.", "check", "your", "connection",
      "and", "server", "url.">>

\* the word w occurs in msg: /w/.test(msg) for a pattern that is one word
HasWord(msg, w) == \E i \in 1..Len(msg) : msg[i] = w
\* the words w1 w2 occur in msg one after the other: /w1 w2/.test(msg)
HasWords(msg, w1, w2) == \E i \in 1..(Len(msg) - 1) : msg[i] = w1 /\ msg[i + 1] = w2

\* --- errors -------------------------------------------------------------
NO_CODE == "undefined"
NOT_CONFIGURED == "not_configured"
UNAUTHORIZED == "unauthorized"
RATE_LIMITED == "rate_limited"
SERVER_ERROR == "server_error"
NETWORK_ERROR == "network_error"
TIMEOUT == "timeout"
ErrorCodes == {NOT_CONFIGURED, UNAUTHORIZED, RATE_LIMITED, SERVER_ERROR,
               NETWORK_ERROR, TIMEOUT}

\* new APIError(message, status, code), api-client.ts:41-50
APIError(m, st, cd) ==
    [cls |-> "APIError", name |-> "APIError", message |-> m, status |-> st, code |-> cd]
\* any other thrown value: its class and name; it has no status (-1 here), and no
\* code unless its class defines one
OtherError(c, n, m) ==
    [cls |-> c, name |-> n, message |-> m, status |-> -1, code |-> NO_CODE]
\* fetch() rejects with a TypeError on a network-level failure
FetchTypeError == OtherError("TypeError", "TypeError", MSG_FAILED_TO_FETCH)
\* body.error on the JSON value null
NullBodyTypeError == OtherError("TypeError", "TypeError", MSG_NULL_BODY)
\* an aborted fetch rejects with a DOMException named AbortError, whose legacy
\* code property is 20 (ABORT_ERR)
AbortError(m) == [OtherError("DOMException", "AbortError", m) EXCEPT !.code = "20"]
\* res.json() rejects with a SyntaxError for a body that is not JSON
JsonSyntaxError ==
    OtherError("SyntaxError", "SyntaxError", <<"unexpected", "token", "in", "json">>)
NoError == [cls |-> "none", name |-> "", message |-> <<>>, status |-> -1, code |-> NO_CODE]

RETRY_BACKOFF_MS == <<1000, 3000>>
NO_RETRY_STATUSES == {401, 429}

\* statusToErrorCode(status), api-client.ts:84-89
statusToErrorCode(status) ==
    IF status = 401 THEN UNAUTHORIZED
    ELSE IF status = 429 THEN RATE_LIMITED
    ELSE IF status >= 500 THEN SERVER_ERROR
    ELSE NO_CODE

\* friendlyError(err), api-client.ts:92-113
friendlyError(err) ==
    IF err.cls = "APIError" THEN err
    ELSE LET msg == err.message
             isNetworkError ==
                 \/ err.cls = "TypeError" /\ (HasWord(msg, "fetch") \/ HasWord(msg, "network"))
                 \/ msg = MSG_FAILED_TO_FETCH
                 \/ HasWord(msg, "econnrefused") \/ HasWord(msg, "econnreset")
                 \/ HasWord(msg, "enotfound")
         IN  IF isNetworkError THEN APIError(MSG_UNREACHABLE, 0, NETWORK_ERROR)
             ELSE IF HasWords(msg, "timed", "out") THEN APIError(msg, 0, TIMEOUT)
             ELSE IF HasWords(msg, "not", "configured")
                  THEN APIError(msg, 0, NOT_CONFIGURED)
             ELSE err

\* --- settings -----------------------------------------------------------
\* A URL string is held as its parts; a string new URL() rejects has no scheme, and
\* the empty string has no part at all.
\* The path is the sequence of its pieces, "/" being a piece; the port is the text
\* after the ":" of the authority, "" when there is none.
StrPort(sch, h, pt, p) == [scheme |-> sch, host |-> h, port |-> pt, path |-> p]
Str(sch, h, p) == StrPort(sch, h, "", p)
EmptyStr == Str("", "", <<>>)
\* new URL(s).host: the host name and the port, which the URL parser drops when it
\* is the default port of the scheme
DefaultPort(sch) == IF sch = "https:" THEN "443" ELSE IF sch = "http:" THEN "80" ELSE ""
UrlHost(s) == [name |-> s.host, port |-> IF s.port = DefaultPort(s.scheme) THEN "" ELSE s.port]
\* s.replace(/\/$/, ""): a slash at the end of the string is dropped
StripSlash(s) ==
    IF s.path # <<>> /\ s.path[Len(s.path)] = "/"
    THEN [s EXCEPT !.path = SubSeq(@, 1, Len(@) - 1)]
    ELSE s
Settings(u, k, e) == [serverUrl |-> u, apiKey |-> k, encryptionSecret |-> e]
NoSettings == [none |-> TRUE]
SERVER == Str("https:", "vault.example", <<>>)

\* what chrome.storage.local.get gives getSettings: the three keys, "" for a key
\* that is not stored (result.x || ""), api-client.ts:23-32
ReadSettings == Settings(store.serverUrl, store.apiKey, store.encryptionSecret)

\* --- rate limit ---------------------------------------------------------
NoRateLimit == [known |-> FALSE]
RateLimit(r, t) == [known |-> TRUE, remaining |-> r, resetAt |-> t]

\* a response header: absent (headers.get gives null), or the number Number()
\* makes of its text, which is not finite for text such as "soon"
NoHeader == [present |-> FALSE]
NaNHeader == [present |-> TRUE, finite |-> FALSE]
Header(n) == [present |-> TRUE, finite |-> TRUE, num |-> n]
Infinite == [finite |-> FALSE]
Finite(n) == [finite |-> TRUE, num |-> n]
NumberOf(h) == IF h.finite THEN Finite(h.num) ELSE Infinite

\* mutant: the two headers are taken the other way round
updateRateLimitCache_Swapped(cache, remaining, reset) ==
    IF ~remaining.present /\ ~reset.present THEN cache
    ELSE LET r == IF remaining.present THEN NumberOf(remaining)
                  ELSE IF cache.known THEN Finite(cache.remaining) ELSE Infinite
             t == IF reset.present THEN NumberOf(reset)
                  ELSE IF cache.known THEN Finite(cache.resetAt) ELSE Finite(0)
         IN  IF r.finite /\ t.finite THEN RateLimit(t.num, r.num) ELSE cache

\* mutant: a header that is missing counts as 0 whatever is cached
updateRateLimitCache_NoFallback(cache, remaining, reset) ==
    IF ~remaining.present /\ ~reset.present THEN cache
    ELSE LET r == IF remaining.present THEN NumberOf(remaining) ELSE Finite(0)
             t == IF reset.present THEN NumberOf(reset) ELSE Finite(0)
         IN  IF r.finite /\ t.finite THEN RateLimit(r.num, t.num) ELSE cache

\* updateRateLimitCache(remaining, reset), api-client.ts:58-69: the new value of
\* cachedRateLimit
updateRateLimitCache(cache, remaining, reset) ==
    IF ~remaining.present /\ ~reset.present THEN cache
    ELSE LET r == IF remaining.present THEN NumberOf(remaining)
                  ELSE IF cache.known THEN Finite(cache.remaining) ELSE Infinite
             t == IF reset.present THEN NumberOf(reset)
                  ELSE IF cache.known THEN Finite(cache.resetAt) ELSE Finite(0)
         IN  IF r.finite /\ t.finite THEN RateLimit(r.num, t.num) ELSE cache

\* api-client.ts:70-73: the write updateRateLimitCache hands to
\* chrome.storage.local.set, <<>> when it hands none
rateLimitToStore(remaining, reset) ==
    IF ~remaining.present /\ ~reset.present THEN <<>>
    ELSE <<[rateLimitRemaining |-> remaining, rateLimitReset |-> reset]>>

\* mutant: remaining = 0 is not taken as used up
rateLimitExhausted_NegativeOnly(cache, now) ==
    /\ cache.known
    /\ cache.remaining < 0
    /\ now < 2 * cache.resetAt

\* mutant: the limit is still taken as used up at the reset time itself
rateLimitExhausted_AtReset(cache, now) ==
    /\ cache.known
    /\ cache.remaining <= 0
    /\ now <= 2 * cache.resetAt

\* the pre-flight test, api-client.ts:154-158
rateLimitExhausted(cache, now) ==
    /\ cache.known
    /\ cache.remaining <= 0
    /\ now < 2 * cache.resetAt

\* --- apiFetch -----------------------------------------------------------
NoResult == [kind |-> "none"]
Ok == [kind |-> "ok"]
Err(e) == [kind |-> "error", err |-> e]
NoOutcome == [kind |-> "none", status |-> 0, body |-> "", remaining |-> [present |-> FALSE],
              reset |-> [present |-> FALSE]]
NoRequest == [sent |-> FALSE]

IdleCall ==
    [pc |-> "idle",          \* idle, reading, read, fetching, backoff, done
     snap |-> NoSettings,    \* what the storage read of getSettings has returned
     cfg |-> NoSettings,     \* the settings the first getSettings gave the call
     req |-> NoRequest,      \* url and headers of the call's requests
     attempt |-> 0,          \* the loop variable of api-client.ts:188
     fetches |-> 0,          \* fetch() calls made so far
     waits |-> <<>>,         \* the backoff delays waited or being waited, in ms
     lastError |-> NoError,  \* api-client.ts:186
     last |-> NoOutcome,     \* how the latest fetch ended
     seen |-> {},            \* the kinds of ending the call's fetches have had
     result |-> NoResult]    \* what apiFetch returned or threw

\* the ways one fetch() can end: a response, a rejection with the TypeError of a
\* network-level failure, or the AbortError raised when the 15 s timer of
\* api-client.ts:191 aborts the request
Outcome(k, st, b, m, rem, rst) ==
    [kind |-> k, status |-> st, body |-> b, message |-> m, remaining |-> rem,
     reset |-> rst]
Response(st, b, rem, rst) == Outcome("response", st, b, <<>>, rem, rst)
NetworkFailure == Outcome("network", 0, "", <<>>, NoHeader, NoHeader)
Aborted(m) == Outcome("abort", 0, "", m, NoHeader, NoHeader)
\* what the call record keeps of an outcome
Brief(o) == [kind |-> o.kind, status |-> o.status, body |-> o.body,
             remaining |-> o.remaining, reset |-> o.reset]
Statuses == {200, 401, 404, 429, 500, 503}
\* the JSON value of an error body: an object (or a text that is no JSON, which
\* .catch turns into an object), or the JSON value null
Bodies == {"object", "null"}
\* the body of a 2xx response is JSON text ("object") or a text that is no JSON
NotJson == "text"
RemainingHeaders == {NoHeader, NaNHeader, Header(0), Header(3)}
ResetHeaders == {NoHeader, Header(0), Header(1)}
\* every way an attempt can end, for responses without rate-limit headers
RetryOutcomes ==
    {Response(200, "object", NoHeader, NoHeader)}
    \cup {Response(st, b, NoHeader, NoHeader) : st \in Statuses \ {200}, b \in Bodies}
    \cup {NetworkFailure, Aborted(MSG_ABORTED), Aborted(MSG_USER_ABORTED)}
\* successful responses with every combination of rate-limit headers, and failures
\* of each kind: retried, not retried, with and without rate-limit headers
GatewayOutcomes ==
    {Response(200, "object", NoHeader, NoHeader), Response(200, "object", Header(0), Header(1)),
     Response(200, "object", Header(3), Header(1)), Response(200, "object", Header(0), Header(0))}
    \cup {Response(500, "object", Header(0), Header(1)),
          Response(429, "object", Header(0), Header(1)),
          Response(401, "object", NoHeader, NoHeader), NetworkFailure}

\* res.ok
IsOk(status) == status >= 200 /\ status <= 299

\* throw err out of apiFetch
Throw(cl, err) == [cl EXCEPT !.pc = "done", !.result = Err(err), !.lastError = NoError]

\* mutant: the next attempt is made at once, without a wait
Backoff_NoWait(cl) ==
    [cl EXCEPT !.attempt = @ + 1, !.fetches = @ + 1]

\* mutant: every wait takes the first delay
Backoff_FirstDelay(cl) ==
    [cl EXCEPT !.pc = "backoff", !.waits = Append(@, RETRY_BACKOFF_MS[1])]

\* await new Promise((r) => setTimeout(r, RETRY_BACKOFF_MS[attempt])); continue
Backoff(cl) ==
    [cl EXCEPT !.pc = "backoff", !.waits = Append(@, RETRY_BACKOFF_MS[cl.attempt + 1])]

\* api-client.ts:248, reached when the loop has ended
AfterLoop(cl) == Throw(cl, friendlyError(cl.lastError))

\* the catch block, api-client.ts:226-245, and the loop's end
Catch(cl, err) ==
    LET isAbort == err.cls = "DOMException" /\ err.name = "AbortError"
        c1 == IF isAbort
              THEN [cl EXCEPT !.lastError =
                                  OtherError("Error", "Error", MSG_REQUEST_TIMED_OUT)]
              ELSE cl
    IN  IF isAbort /\ cl.attempt < Len(RETRY_BACKOFF_MS) THEN Backoff(c1)
        ELSE IF err.cls = "APIError" /\ err.status \in NO_RETRY_STATUSES
             THEN Throw(c1, err)
        ELSE LET c2 == [c1 EXCEPT !.lastError = err]
             IN  IF cl.attempt < Len(RETRY_BACKOFF_MS) THEN Backoff(c2)
                 ELSE AfterLoop(c2)

\* api-client.ts:200-217: a response that is not ok
NotOk(cl, o) ==
    IF o.body = "null"
    THEN \* body.error of null throws a TypeError inside the try block
         Catch(cl, NullBodyTypeError)
    ELSE LET err == APIError(MSG_API, o.status, statusToErrorCode(o.status))
         IN  IF o.status \in NO_RETRY_STATUSES THEN Catch(cl, err)
             ELSE LET c1 == [cl EXCEPT !.lastError = err]
                  IN  IF cl.attempt < Len(RETRY_BACKOFF_MS) THEN Backoff(c1)
                      ELSE Catch(c1, err)

\* mutant: the X-Vault-Secret header is set whatever the secret is
RequestHeaders_SecretAlways(apiKey, encryptionSecret) ==
    {<<"Content-Type", <<"application/json">>>>}
    \cup (IF apiKey # "" THEN {<<"Authorization", <<"Bearer", apiKey>>>>} ELSE {})
    \cup {<<"X-Vault-Secret", <<encryptionSecret>>>>}

\* the headers object of api-client.ts:170-184, as a set of <<name, value>>; a
\* value is the sequence of the parts of the template that makes it
RequestHeaders(apiKey, encryptionSecret) ==
    {<<"Content-Type", <<"application/json">>>>}
    \cup (IF apiKey # "" THEN {<<"Authorization", <<"Bearer", apiKey>>>>} ELSE {})
    \cup (IF encryptionSecret # ""
          THEN {<<"X-Vault-Secret", <<encryptionSecret>>>>} ELSE {})

\* mutant: the pre-flight test is made before the not-configured checks
Prepare_PreflightFirst(cl, s, cache) ==
    LET c1 == [cl EXCEPT !.cfg = s, !.snap = NoSettings]
    IN  IF rateLimitExhausted(cachedRateLimit, nowHalf)
        THEN Throw(c1, APIError(MSG_RATE_EXHAUSTED, 429, RATE_LIMITED))
        ELSE IF s.serverUrl = EmptyStr
        THEN Throw(c1, APIError(MSG_NO_SERVER, 0, NOT_CONFIGURED))
        ELSE IF s.apiKey = ""
        THEN Throw(c1, APIError(MSG_NO_KEY, 0, NOT_CONFIGURED))
        ELSE [c1 EXCEPT !.pc = "fetching",
                        !.req = [sent |-> TRUE, base |-> StripSlash(s.serverUrl),
                                 authorization |-> s.apiKey,
                                 vaultSecret |-> cache.encryptionSecret,
                                 headers |-> RequestHeaders(s.apiKey,
                                                            cache.encryptionSecret)],
                        !.fetches = 1]

\* api-client.ts:141-197 for the settings s that getSettings returned: the two
\* not-configured checks, the pre-flight test, the headers (the second getSettings
\* finds the cache filled and gives cache) and the first fetch
Prepare(cl, s, cache) ==
    LET c1 == [cl EXCEPT !.cfg = s, !.snap = NoSettings]
    IN  IF s.serverUrl = EmptyStr
        THEN Throw(c1, APIError(MSG_NO_SERVER, 0, NOT_CONFIGURED))
        ELSE IF s.apiKey = ""
        THEN Throw(c1, APIError(MSG_NO_KEY, 0, NOT_CONFIGURED))
        ELSE IF rateLimitExhausted(cachedRateLimit, nowHalf)
        THEN Throw(c1, APIError(MSG_RATE_EXHAUSTED, 429, RATE_LIMITED))
        ELSE [c1 EXCEPT !.pc = "fetching",
                        !.req = [sent |-> TRUE, base |-> StripSlash(s.serverUrl),
                                 authorization |-> s.apiKey,
                                 vaultSecret |-> cache.encryptionSecret,
                                 headers |-> RequestHeaders(s.apiKey,
                                                            cache.encryptionSecret)],
                        !.fetches = 1]

\* a gateway operation calls apiFetch, api-client.ts:135-139; getSettings
\* (api-client.ts:21-34) answers from the cache or reads the store
ApiFetch(c) ==
    /\ call[c].pc = "idle"
    /\ call' = [call EXCEPT ![c] =
                   IF cachedSettings # NoSettings
                   THEN Prepare(@, cachedSettings, cachedSettings)
                   ELSE [@ EXCEPT !.pc = "reading"]]
    /\ UNCHANGED <<store, cachedSettings, cachedRateLimit, rlStored, rlWrites, nowHalf>>

\* chrome.storage.local.get of getSettings is served from the store
StorageGetServed(c) ==
    /\ call[c].pc = "reading"
    /\ call' = [call EXCEPT ![c].pc = "read", ![c].snap = ReadSettings]
    /\ UNCHANGED <<store, cachedSettings, cachedRateLimit, rlStored, rlWrites, nowHalf>>

\* mutant: the second getSettings of apiFetch reads the store again
GetSettingsResumes_SecondRead(c) ==
    /\ call[c].pc = "read"
    /\ cachedSettings' = call[c].snap
    /\ call' = [call EXCEPT ![c] = Prepare(@, call[c].snap, ReadSettings)]
    /\ UNCHANGED <<store, cachedRateLimit, rlStored, rlWrites, nowHalf>>

\* getSettings resumes with what was read, api-client.ts:28-33, and apiFetch goes on
GetSettingsResumes(c) ==
    /\ call[c].pc = "read"
    /\ cachedSettings' = call[c].snap
    /\ call' = [call EXCEPT ![c] = Prepare(@, call[c].snap, call[c].snap)]
    /\ UNCHANGED <<store, cachedRateLimit, rlStored, rlWrites, nowHalf>>

\* mutant: the rate-limit headers are taken from every response, before the test
\* of res.ok
FetchSettles_HeadersOfAnyResponse(c, o) ==
    /\ call[c].pc = "fetching"
    /\ Len(rlWrites) + Len(rateLimitToStore(o.remaining, o.reset)) <= MaxPendingWrites
    /\ LET cl == [call[c] EXCEPT !.last = Brief(o), !.seen = @ \cup {o.kind}] IN
       /\ IF o.kind = "response"
          THEN /\ cachedRateLimit' = updateRateLimitCache(cachedRateLimit, o.remaining, o.reset)
               /\ rlWrites' = rlWrites \o rateLimitToStore(o.remaining, o.reset)
          ELSE UNCHANGED <<cachedRateLimit, rlWrites>>
       /\ call' = [call EXCEPT ![c] =
                      IF o.kind = "response" /\ IsOk(o.status)
                      THEN IF o.body = NotJson THEN Throw(cl, JsonSyntaxError)
                           ELSE [cl EXCEPT !.pc = "done", !.result = Ok,
                                           !.lastError = NoError]
                      ELSE IF o.kind = "response" THEN NotOk(cl, o)
                      ELSE IF o.kind = "network" THEN Catch(cl, FetchTypeError)
                      ELSE Catch(cl, AbortError(o.message))]
    /\ UNCHANGED <<store, cachedSettings, rlStored, nowHalf>>

\* mutant: a success after a failed attempt throws the failure kept in lastError
FetchSettles_ReportsEarlierFailure(c, o) ==
    /\ call[c].pc = "fetching"
    /\ Len(rlWrites) + Len(rateLimitToStore(o.remaining, o.reset)) <= MaxPendingWrites
    /\ LET cl == [call[c] EXCEPT !.last = Brief(o), !.seen = @ \cup {o.kind}] IN
       IF o.kind = "response" /\ IsOk(o.status)
       THEN /\ cachedRateLimit' = updateRateLimitCache(cachedRateLimit, o.remaining, o.reset)
            /\ rlWrites' = rlWrites \o rateLimitToStore(o.remaining, o.reset)
            /\ call' = [call EXCEPT ![c] =
                           IF cl.lastError # NoError THEN AfterLoop(cl)
                           ELSE IF o.body = NotJson THEN Throw(cl, JsonSyntaxError)
                           ELSE [cl EXCEPT !.pc = "done", !.result = Ok,
                                           !.lastError = NoError]]
       ELSE /\ call' = [call EXCEPT ![c] =
                           IF o.kind = "response" THEN NotOk(cl, o)
                           ELSE IF o.kind = "network"
                           THEN Catch(cl, FetchTypeError)
                           ELSE Catch(cl, AbortError(o.message))]
            /\ UNCHANGED <<cachedRateLimit, rlWrites>>
    /\ UNCHANGED <<store, cachedSettings, rlStored, nowHalf>>

\* the fetch of api-client.ts:193 ends with outcome o
FetchSettles(c, o) ==
    /\ call[c].pc = "fetching"
    /\ Len(rlWrites) + Len(rateLimitToStore(o.remaining, o.reset)) <= MaxPendingWrites
    /\ LET cl == [call[c] EXCEPT !.last = Brief(o), !.seen = @ \cup {o.kind}] IN
       IF o.kind = "response" /\ IsOk(o.status)
       THEN /\ cachedRateLimit' = updateRateLimitCache(cachedRateLimit, o.remaining, o.reset)
            /\ rlWrites' = rlWrites \o rateLimitToStore(o.remaining, o.reset)
            /\ call' = [call EXCEPT ![c] =
                           \* return res.json(), api-client.ts:225: the promise is not
                           \* awaited inside the try block, so its rejection is the
                           \* call's, not the catch block's
                           IF o.body = NotJson THEN Throw(cl, JsonSyntaxError)
                           ELSE [cl EXCEPT !.pc = "done", !.result = Ok,
                                           !.lastError = NoError]]
       ELSE /\ call' = [call EXCEPT ![c] =
                           IF o.kind = "response" THEN NotOk(cl, o)
                           ELSE IF o.kind = "network"
                           THEN Catch(cl, FetchTypeError)
                           ELSE Catch(cl, AbortError(o.message))]
            /\ UNCHANGED <<cachedRateLimit, rlWrites>>
    /\ UNCHANGED <<store, cachedSettings, rlStored, nowHalf>>

\* mutant: the loop variable is one for all calls
BackoffElapses_SharedAttempt(c) ==
    /\ call[c].pc = "backoff"
    /\ call' = [d \in Calls |->
                   IF d = c THEN [call[d] EXCEPT !.pc = "fetching", !.attempt = @ + 1,
                                                 !.fetches = @ + 1]
                   ELSE [call[d] EXCEPT !.attempt = @ + 1]]
    /\ UNCHANGED <<store, cachedSettings, cachedRateLimit, rlStored, rlWrites, nowHalf>>

\* the backoff timer of api-client.ts:213/231/242 fires: continue, attempt++, and
\* the next fetch
BackoffElapses(c) ==
    /\ call[c].pc = "backoff"
    /\ call' = [call EXCEPT ![c].pc = "fetching", ![c].attempt = @ + 1,
                            ![c].fetches = @ + 1]
    /\ UNCHANGED <<store, cachedSettings, cachedRateLimit, rlStored, rlWrites, nowHalf>>

\* the caller of the gateway operation has taken what apiFetch returned or threw
Return(c) ==
    /\ call[c].pc = "done"
    /\ call' = [call EXCEPT ![c] = IdleCall]
    /\ UNCHANGED <<store, cachedSettings, cachedRateLimit, rlStored, rlWrites, nowHalf>>

\* mutant: the write is awaited and its failure is the failure of the call that
\* issued it
RateLimitWriteCompletes_FailsCall(ok) ==
    /\ rlWrites # <<>>
    /\ rlWrites' = Tail(rlWrites)
    /\ rlStored' = IF ok
                   THEN [k \in DOMAIN rlStored |->
                            IF Head(rlWrites)[k].present THEN Head(rlWrites)[k]
                            ELSE rlStored[k]]
                   ELSE rlStored
    /\ call' = IF ok THEN call
               ELSE [c \in Calls |->
                        IF call[c].pc = "done" /\ call[c].result = Ok
                        THEN Throw(call[c], OtherError("Error", "Error", <<"quota", "exceeded">>))
                        ELSE call[c]]
    /\ UNCHANGED <<store, cachedSettings, cachedRateLimit, nowHalf>>

\* a chrome.storage.local.set issued by updateRateLimitCache completes; nobody
\* waits for it or looks at its outcome (api-client.ts:73)
RateLimitWriteCompletes(ok) ==
    /\ rlWrites # <<>>
    /\ rlWrites' = Tail(rlWrites)
    /\ rlStored' = IF ok
                   THEN [k \in DOMAIN rlStored |->
                            IF Head(rlWrites)[k].present THEN Head(rlWrites)[k]
                            ELSE rlStored[k]]
                   ELSE rlStored
    /\ UNCHANGED <<store, cachedSettings, cachedRateLimit, nowHalf, call>>

\* time passes
Tick ==
    /\ nowHalf < MaxTicks
    /\ nowHalf' = nowHalf + 1
    /\ UNCHANGED <<store, cachedSettings, cachedRateLimit, rlStored, rlWrites, call>>

(***************************************************************************)
(*                       Message router (index.ts)                         *)
(***************************************************************************)
VARIABLES
    permissions,       \* the origin patterns the browser has granted the extension
    badge,             \* the badge text set by updateBadge
    save,              \* the save_settings request being handled: where it stands
    saveResponse,      \* the response to the latest save_settings request
    routed,            \* the latest request handleMessage took: its type and the
                       \* branch of the switch it entered
    connection         \* the test_connection request being handled, and the response
                       \* to the latest one

routerVars == <<permissions, badge, save, saveResponse, routed, connection>>

VARIABLES
    profile            \* the running getUserProfile call: where it stands and what it holds

profileVars == <<profile>>

vars == <<oauthVars, apiVars, routerVars, profileVars>>

\* a text typed into a form: the string and whether blanks surround it
Typed(ws, s) == [ws |-> ws, s |-> s]
\* x.trim()
Trim(x) == x.s

\* mutant: the scheme is not looked at
originPatternFromServerUrl_AnyScheme(serverUrl) ==
    IF serverUrl.scheme = ""
    THEN [ok |-> FALSE, message |-> "Invalid server URL. Use a full URL like https://api.context-vault.com"]
    ELSE [ok |-> TRUE, origin |-> <<serverUrl.scheme, "//", UrlHost(serverUrl), "/*">>]

\* originPatternFromServerUrl(serverUrl), index.ts:59-75: the pattern
\* `${protocol}//${host}/*`, or the error thrown
originPatternFromServerUrl(serverUrl) ==
    IF serverUrl.scheme = ""
    THEN [ok |-> FALSE, message |-> "Invalid server URL. Use a full URL like https://api.context-vault.com"]
    ELSE IF serverUrl.scheme # "https:" /\ serverUrl.scheme # "http:"
    THEN [ok |-> FALSE, message |-> "Server URL must use http:// or https://"]
    ELSE [ok |-> TRUE, origin |-> <<serverUrl.scheme, "//", UrlHost(serverUrl), "/*">>]

\* isConnected(serverUrl, apiKey), index.ts:110-112
isConnected(serverUrl, apiKey) == serverUrl # EmptyStr /\ apiKey # ""

\* updateBadge(connected), index.ts:48-55: the badge text
updateBadge(connected) == IF connected THEN "" ELSE "!"

SaveIdle == [pc |-> "idle"]
NoResponse == [type |-> "none"]
\* the message is the sequence of its parts
ErrorResponse(m) == [type |-> "error", message |-> m]

\* the request types the popup and the content scripts send: the six of the
\* switch and the two of the sign-in buttons (Settings.tsx:251, 282)
RequestTypes ==
    {"search", "capture", "get_settings", "save_settings", "test_connection",
     "check_health", "google_auth_start", "sign_out"}
\* the case labels of the switch of handleMessage, index.ts:238-336
HandledTypes ==
    {"search", "capture", "get_settings", "save_settings", "test_connection",
     "check_health"}
MSG_UNKNOWN_TYPE == <<"Unknown message type">>
NoRequestYet == [request |-> "none", branch |-> "none", response |-> NoResponse]
\* switch (message.type), index.ts:238-339: the branch a request of this type
\* enters, and the response of the default branch
Routed(type) ==
    IF type \in HandledTypes
    THEN [request |-> type, branch |-> type, response |-> NoResponse]
    ELSE [request |-> type, branch |-> "default",
          response |-> ErrorResponse(MSG_UNKNOWN_TYPE)]

\* handleMessage takes a request that is not save_settings (SaveSettings is that
\* branch): the switch of index.ts:238; the branches of the gateway operations go
\* on in the gateway client
HandleMessage(type) ==
    /\ type # "save_settings"
    /\ routed' = Routed(type)
    /\ UNCHANGED <<permissions, badge, save, saveResponse, connection>>

SaveMessages ==
    {[serverUrl |-> Typed(ws, u), apiKey |-> Typed(FALSE, k),
      encryptionSecret |-> Typed(FALSE, e)] :
         ws \in BOOLEAN,
         u \in {EmptyStr, Str("https:", "vault.example", <<"/">>),
                Str("https:", "api.example.com", <<"/", "x">>),
                StrPort("http:", "vault.example", "8443", <<>>),
                StrPort("https:", "vault.example", "443", <<>>),
                Str("ftp:", "vault.example", <<>>), Str("", "vault.example", <<>>)},
         k \in {"", "key2"}, e \in {"", "sec2"}}

\* handleMessage, case "save_settings", index.ts:279-295, up to the first await
\* of ensureServerPermission (index.ts:93-95)
SaveSettings(message) ==
    /\ save = SaveIdle
    /\ LET serverUrl == StripSlash(Trim(message.serverUrl))
           apiKey == Trim(message.apiKey)
           encryptionSecret == Trim(message.encryptionSecret)
           pattern == originPatternFromServerUrl(serverUrl)
       IN  IF serverUrl = EmptyStr
           THEN /\ saveResponse' = ErrorResponse(<<"Server URL is required">>)
                /\ UNCHANGED save
           ELSE IF ~pattern.ok
           THEN /\ saveResponse' = ErrorResponse(<<pattern.message>>)
                /\ UNCHANGED save
           ELSE /\ saveResponse' = NoResponse
                /\ save' = [pc |-> "contains", origin |-> pattern.origin, prompts |-> 0,
                            settings |-> Settings(serverUrl, apiKey, encryptionSecret)]
    /\ routed' = Routed("save_settings")
    /\ UNCHANGED <<permissions, badge, connection>>

\* mutant: the prompt is shown whether or not the pattern is granted
PermissionContains_AlwaysPrompt ==
    /\ save.pc = "contains"
    /\ save' = [save EXCEPT !.pc = "request", !.prompts = @ + 1]
    /\ UNCHANGED <<permissions, badge, saveResponse, routed, connection>>

\* the callback of chrome.permissions.contains, index.ts:77-83 and 95-98: with the
\* pattern granted ensureServerPermission returns and the write of index.ts:297
\* is issued, otherwise chrome.permissions.request shows the prompt
PermissionContains ==
    /\ save.pc = "contains"
    /\ save' = IF save.origin \in permissions THEN [save EXCEPT !.pc = "writing"]
               ELSE [save EXCEPT !.pc = "request", !.prompts = @ + 1]
    /\ UNCHANGED <<permissions, badge, saveResponse, routed, connection>>

\* `Permission denied for ${origin}. Allow host access to connect this server.`
MSG_PERMISSION_DENIED(origin) ==
    <<"Permission denied for ", origin, ". Allow host access to connect this server.">>

\* mutant: the settings are written although the user declined
PermissionRequest_IgnoreDenied(granted) ==
    /\ save.pc = "request"
    /\ permissions' = IF granted THEN permissions \cup {save.origin} ELSE permissions
    /\ save' = [save EXCEPT !.pc = "writing"]
    /\ UNCHANGED saveResponse
    /\ UNCHANGED <<badge, routed, connection>>

\* the callback of chrome.permissions.request, index.ts:85-91 and 98-105, and the
\* catch of index.ts:289-295
PermissionRequest(granted) ==
    /\ save.pc = "request"
    /\ IF granted
       THEN /\ permissions' = permissions \cup {save.origin}
            /\ save' = [save EXCEPT !.pc = "writing"]
            /\ UNCHANGED saveResponse
       ELSE /\ save' = SaveIdle
            /\ saveResponse' = ErrorResponse(MSG_PERMISSION_DENIED(save.origin))
            /\ UNCHANGED permissions
    /\ UNCHANGED <<badge, routed, connection>>

\* chrome.storage.local.set of index.ts:297 reaches the store
StorageSetLands ==
    /\ save.pc = "writing"
    /\ store' = save.settings
    /\ save' = [save EXCEPT !.pc = "written"]
    /\ UNCHANGED <<permissions, badge, saveResponse, routed, connection>>

\* handleMessage resumes after the write, index.ts:298-309
SaveResumes ==
    /\ save.pc = "written"
    /\ cachedSettings' = NoSettings
    /\ LET connected == isConnected(save.settings.serverUrl, save.settings.apiKey) IN
       /\ badge' = updateBadge(connected)
       /\ saveResponse' = [type |-> "settings", settings |-> save.settings,
                           connected |-> connected]
    /\ save' = SaveIdle
    /\ UNCHANGED <<permissions, routed, connection>>

\* no test_connection request under way; response is the latest one's
ConnectionIdle == [pc |-> "idle", call |-> 0, response |-> NoResponse]

\* what the server sends as the vault status: an object with a health field, or
\* the JSON value null
VaultStatus(h) == [isNull |-> FALSE, health |-> h]
NullStatus == [isNull |-> TRUE, health |-> ""]
StatusBodies == {VaultStatus("ok"), VaultStatus("degraded"), VaultStatus("down"), NullStatus}
\* status.health on the JSON value null
NullStatusTypeError ==
    OtherError("TypeError", "TypeError",
               <<"cannot", "read", "properties", "of", "null", "(reading", "'health')">>)

\* { type: "connection_result", ... }, index.ts:317 and 321-326; a field that is
\* left out or undefined is NO_CODE
ConnectionResult(success, error, code) ==
    [type |-> "connection_result", success |-> success, error |-> error, code |-> code]

\* handleMessage, case "test_connection", index.ts:312-314: getVaultStatus()
\* (api-client.ts:293-295) calls apiFetch, as call c
TestConnection(c) ==
    /\ connection.pc = "idle"
    /\ ApiFetch(c)
    /\ connection' = [pc |-> "waiting", call |-> c, response |-> NoResponse]
    /\ routed' = Routed("test_connection")
    /\ UNCHANGED <<permissions, badge, save, saveResponse>>

\* handleMessage resumes from await getVaultStatus(), index.ts:314-328: with the
\* parsed body status when the call returned, in the catch block when it threw or
\* when status.health throws
TestConnectionResumes(status) ==
    /\ connection.pc = "waiting"
    /\ call[connection.call].pc = "done"
    /\ LET r == call[connection.call].result
           err == IF r.kind = "error" THEN r.err
                  ELSE IF status.isNull THEN NullStatusTypeError
                  ELSE NoError
           connected == status.health = "ok" \/ status.health = "degraded"
       IN  IF err = NoError
           THEN /\ badge' = updateBadge(connected)
                /\ connection' = [ConnectionIdle EXCEPT
                                     !.response = ConnectionResult(connected, NO_CODE, NO_CODE)]
           ELSE /\ badge' = updateBadge(FALSE)
                \* err.code || undefined
                /\ connection' = [ConnectionIdle EXCEPT
                                     !.response = ConnectionResult(FALSE, err.message, err.code)]
    /\ call' = [call EXCEPT ![connection.call] = IdleCall]
    /\ UNCHANGED <<permissions, save, saveResponse, routed>>
    /\ UNCHANGED <<store, cachedSettings, cachedRateLimit, rlStored, rlWrites, nowHalf>>

(***************************************************************************)
(*                  getUserProfile (api-client.ts:302-323)                 *)
(***************************************************************************)
NoProfileOutcome == [kind |-> "none", status |-> 0, body |-> ""]
IdleProfile ==
    [pc |-> "idle",               \* idle, fetching, done
     serverUrl |-> EmptyStr,      \* the arguments of the call
     apiKey |-> "",
     req |-> NoRequest,           \* url and Authorization header of the request
     fetches |-> 0,               \* requests put on the network
     last |-> NoProfileOutcome,   \* how the request ended
     result |-> NoResult]         \* what the promise of getUserProfile settled to

\* the promise of getUserProfile: resolved with the parsed body or with null, or
\* rejected
ProfileValue(v) == [kind |-> "resolved", value |-> v]
ProfileNull == [kind |-> "resolved", value |-> "null"]
ProfileRejected(e) == [kind |-> "rejected", err |-> e]

\* the ways the request can end; the body of a response is JSON text or not
ProfileOutcomes ==
    {[kind |-> "response", status |-> st, body |-> b] :
         st \in {200, 401, 500}, b \in {"json", "invalid"}}
    \cup {[kind |-> "network", status |-> 0, body |-> ""],
          [kind |-> "abort", status |-> 0, body |-> ""]}
ProfileServers ==
    {SERVER, Str("https:", "vault.example", <<"/">>), Str("", "vault.example", <<>>)}
ProfileKeys == {"key1", "key2"}

\* getUserProfile(serverUrl, apiKey) up to the await of fetch, api-client.ts:306-316.
\* For a string that is no URL, fetch() returns a promise that is already
\* rejected (TypeError) and puts nothing on the network; the catch of line 320
\* turns the rejection into null.
GetUserProfile(serverUrl, apiKey) ==
    /\ profile.pc = "idle"
    /\ LET p == [IdleProfile EXCEPT !.serverUrl = serverUrl, !.apiKey = apiKey] IN
       profile' = IF serverUrl.scheme = ""
                  THEN [p EXCEPT !.pc = "done", !.result = ProfileNull]
                  ELSE [p EXCEPT !.pc = "fetching", !.fetches = 1,
                                 !.req = [sent |-> TRUE, base |-> StripSlash(serverUrl),
                                          authorization |-> apiKey]]

\* the fetch ends with outcome o, api-client.ts:317-322. A response that is ok is
\* answered with return res.json(): the promise res.json() returns is not awaited
\* inside the try block, so its rejection is not caught by the catch of line 320
\* and settles the promise of getUserProfile.
ProfileFetchSettles(o) ==
    /\ profile.pc = "fetching"
    /\ profile' = [profile EXCEPT
                      !.pc = "done",
                      !.last = o,
                      !.result =
                          IF o.kind = "response" /\ IsOk(o.status)
                          THEN IF o.body = "json" THEN ProfileValue("profile")
                               ELSE ProfileRejected(JsonSyntaxError)
                          ELSE ProfileNull]

\* the caller has taken the outcome
ProfileReturn ==
    /\ profile.pc = "done"
    /\ profile' = IdleProfile

ProfileInit == profile = IdleProfile

OAuthInit ==
    /\ pendingTabId = NoTab
    /\ pendingResolve = NoFlow
    /\ pendingReject = NoFlow
    /\ pendingTimeout = NoFlow
    /\ timers = {}
    /\ creating = {}
    /\ openTabs = {}
    /\ closeRequested = {}
    /\ listeners = <<>>
    /\ promise = [f \in Flows |-> Unstarted]
    /\ settleCalls = [f \in Flows |-> 0]
    /\ observed = [f \in Flows |-> NotInvoked]
    /\ nextFlow = 1

\* The stored settings a behaviour starts from: nothing saved yet, or a server
\* saved by an earlier run of the worker
InitialStores ==
    {Settings(EmptyStr, "", ""), Settings(SERVER, "key1", ""),
     Settings(SERVER, "key1", "sec1")}

ApiInit ==
    /\ store \in InitialStores
    /\ cachedSettings = NoSettings
    /\ cachedRateLimit = NoRateLimit
    /\ rlStored = [rateLimitRemaining |-> NoHeader, rateLimitReset |-> NoHeader]
    /\ rlWrites = <<>>
    /\ nowHalf = 0
    /\ call = [c \in Calls |-> IdleCall]

RouterInit ==
    /\ permissions = IF store.serverUrl = EmptyStr THEN {}
                     ELSE {originPatternFromServerUrl(store.serverUrl).origin}
    /\ badge = updateBadge(isConnected(store.serverUrl, store.apiKey))
    /\ save = SaveIdle
    /\ saveResponse = NoResponse
    /\ routed = NoRequestYet
    /\ connection = ConnectionIdle

Init == OAuthInit /\ ApiInit /\ RouterInit /\ ProfileInit

\* the coordinator alone
OAuthNext ==
    \/ StartGoogleOAuth /\ UNCHANGED <<apiVars, routerVars, profileVars>>
    \/ \E f \in Flows, ok \in BOOLEAN : TabCreated(f, ok) /\ UNCHANGED <<apiVars, routerVars, profileVars>>
    \/ \E f \in Flows : DeadlineFires(f) /\ UNCHANGED <<apiVars, routerVars, profileVars>>
    \/ \E t \in 1..ForeignTab, u \in Urls : TabUpdated(t, u) /\ UNCHANGED <<apiVars, routerVars, profileVars>>
    \/ \E t \in 1..ForeignTab : TabRemoved(t) /\ UNCHANGED <<apiVars, routerVars, profileVars>>

\* the coordinator does not read the settings store: one store is enough
OAuthStart == Init /\ store = Settings(EmptyStr, "", "")

OAuthSpec == OAuthStart /\ [][OAuthNext]_vars

\* the browser's part of the coordinator's scheduling: a timer that stays armed
\* fires (setTimeout, oauth.ts:97), and the callback of chrome.tabs.create is
\* delivered (oauth.ts:101); what the user does with the tab is not scheduled
DeadlineStep(f) == DeadlineFires(f) /\ UNCHANGED <<apiVars, routerVars, profileVars>>
CreateStep(f) ==
    (\E ok \in BOOLEAN : TabCreated(f, ok)) /\ UNCHANGED <<apiVars, routerVars, profileVars>>
OAuthFairness ==
    \A f \in Flows : WF_vars(DeadlineStep(f)) /\ WF_vars(CreateStep(f))

OAuthLiveSpec == OAuthStart /\ [][OAuthNext]_vars /\ OAuthFairness

\* the coordinator with the two navigations of a sign-in tab that matter to a
\* race of terminators: a page of the provider, and the callback URL
RaceUrls ==
    {Url("accounts.google.com", CALLBACK_PATH, "tok", "", ""),
     Url(CALLBACK_HOST, CALLBACK_PATH, "tok", "sec", "")}

OAuthRaceNext ==
    \/ StartGoogleOAuth /\ UNCHANGED <<apiVars, routerVars, profileVars>>
    \/ \E f \in Flows, ok \in BOOLEAN : TabCreated(f, ok) /\ UNCHANGED <<apiVars, routerVars, profileVars>>
    \/ \E f \in Flows : DeadlineFires(f) /\ UNCHANGED <<apiVars, routerVars, profileVars>>
    \/ \E t \in 1..ForeignTab, u \in RaceUrls : TabUpdated(t, u) /\ UNCHANGED <<apiVars, routerVars, profileVars>>
    \/ \E t \in 1..ForeignTab : TabRemoved(t) /\ UNCHANGED <<apiVars, routerVars, profileVars>>

OAuthRaceSpec == OAuthStart /\ [][OAuthRaceNext]_vars

\* the coordinator with callback URLs whose token is in the fragment, in the query
\* string, in both or in neither, with and without a secret in the fragment
FragmentUrls ==
    {Url(CALLBACK_HOST, CALLBACK_PATH, ht, "sec", qt) : ht \in Tokens, qt \in Tokens}
    \cup {Url(CALLBACK_HOST, CALLBACK_PATH, "tok", "", ""),
          Url(CALLBACK_HOST, "/auth/callback/extra", "tok", "", "")}

OAuthFragmentNext ==
    \/ StartGoogleOAuth /\ UNCHANGED <<apiVars, routerVars, profileVars>>
    \/ \E f \in Flows, ok \in BOOLEAN : TabCreated(f, ok) /\ UNCHANGED <<apiVars, routerVars, profileVars>>
    \/ \E f \in Flows : DeadlineFires(f) /\ UNCHANGED <<apiVars, routerVars, profileVars>>
    \/ \E t \in 1..ForeignTab, u \in FragmentUrls : TabUpdated(t, u) /\ UNCHANGED <<apiVars, routerVars, profileVars>>
    \/ \E t \in 1..ForeignTab : TabRemoved(t) /\ UNCHANGED <<apiVars, routerVars, profileVars>>

OAuthFragmentSpec == OAuthStart /\ [][OAuthFragmentNext]_vars

\* one gateway call at a time, its attempts ending in every way
RetryNext ==
    \/ ApiFetch(1) /\ UNCHANGED <<profileVars, oauthVars, routerVars>>
    \/ StorageGetServed(1) /\ UNCHANGED <<profileVars, oauthVars, routerVars>>
    \/ GetSettingsResumes(1) /\ UNCHANGED <<profileVars, oauthVars, routerVars>>
    \/ \E o \in RetryOutcomes : FetchSettles(1, o) /\ UNCHANGED <<profileVars, oauthVars, routerVars>>
    \/ BackoffElapses(1) /\ UNCHANGED <<profileVars, oauthVars, routerVars>>
    \/ Return(1) /\ UNCHANGED <<profileVars, oauthVars, routerVars>>

RetrySpec == Init /\ [][RetryNext]_vars

\* the save_settings requests of ApiSpec: the key is removed, the key is set
GatewaySaves ==
    {[serverUrl |-> Typed(FALSE, Str("https:", "vault.example", <<"/">>)),
      apiKey |-> Typed(FALSE, k), encryptionSecret |-> Typed(FALSE, "")] :
         k \in {"", "key1"}}

\* the gateway client: calls one after the other, responses with rate-limit
\* headers, the clock, and the router's save_settings
ApiNext ==
    \/ ApiFetch(1) /\ UNCHANGED <<profileVars, oauthVars, routerVars>>
    \/ StorageGetServed(1) /\ UNCHANGED <<profileVars, oauthVars, routerVars>>
    \/ GetSettingsResumes(1) /\ UNCHANGED <<profileVars, oauthVars, routerVars>>
    \/ \E o \in GatewayOutcomes : FetchSettles(1, o) /\ UNCHANGED <<profileVars, oauthVars, routerVars>>
    \/ BackoffElapses(1) /\ UNCHANGED <<profileVars, oauthVars, routerVars>>
    \/ Return(1) /\ UNCHANGED <<profileVars, oauthVars, routerVars>>
    \/ \E ok \in BOOLEAN : RateLimitWriteCompletes(ok) /\ UNCHANGED <<profileVars, oauthVars, routerVars>>
    \/ Tick /\ UNCHANGED <<profileVars, oauthVars, routerVars>>
    \/ \E m \in GatewaySaves : SaveSettings(m) /\ UNCHANGED <<profileVars, oauthVars, apiVars>>
    \/ PermissionContains /\ UNCHANGED <<profileVars, oauthVars, apiVars>>
    \/ \E g \in BOOLEAN : PermissionRequest(g) /\ UNCHANGED <<profileVars, oauthVars, apiVars>>
    \/ StorageSetLands
           /\ UNCHANGED <<profileVars, oauthVars, cachedSettings, cachedRateLimit, rlStored, rlWrites,
                          nowHalf, call>>
    \/ SaveResumes
           /\ UNCHANGED <<profileVars, oauthVars, store, cachedRateLimit, rlStored, rlWrites, nowHalf,
                          call>>

\* the encryption secret plays no part in what ApiSpec is about (RetrySpec starts
\* from every store): nothing saved yet, or a server and a key
ApiStart == Init /\ store.encryptionSecret = ""

ApiSpec == ApiStart /\ [][ApiNext]_vars

\* successful responses with every combination of the two rate-limit headers, one
\* whose body is no JSON, and failures of every kind, with rate-limit headers where
\* a response can carry them
HeaderOutcomes ==
    {Response(200, "object", rem, rst) : rem \in RemainingHeaders, rst \in ResetHeaders}
    \cup {Response(200, NotJson, Header(0), Header(1))}
    \cup {Response(500, "object", Header(0), Header(1)),
          Response(429, "object", Header(3), Header(1)),
          Response(401, "object", Header(3), Header(0)),
          NetworkFailure, Aborted(MSG_ABORTED)}

\* the gateway client and the rate-limit headers of its responses
HeaderNext ==
    \/ ApiFetch(1) /\ UNCHANGED <<profileVars, oauthVars, routerVars>>
    \/ StorageGetServed(1) /\ UNCHANGED <<profileVars, oauthVars, routerVars>>
    \/ GetSettingsResumes(1) /\ UNCHANGED <<profileVars, oauthVars, routerVars>>
    \/ \E o \in HeaderOutcomes : FetchSettles(1, o) /\ UNCHANGED <<profileVars, oauthVars, routerVars>>
    \/ BackoffElapses(1) /\ UNCHANGED <<profileVars, oauthVars, routerVars>>
    \/ Return(1) /\ UNCHANGED <<profileVars, oauthVars, routerVars>>
    \/ \E ok \in BOOLEAN : RateLimitWriteCompletes(ok) /\ UNCHANGED <<profileVars, oauthVars, routerVars>>

HeaderSpec == Init /\ [][HeaderNext]_vars

\* getUserProfile beside a gateway call that fills the two caches
ProfileNext ==
    \/ \E u \in ProfileServers, k \in ProfileKeys :
           GetUserProfile(u, k) /\ UNCHANGED <<oauthVars, apiVars, routerVars>>
    \/ \E o \in ProfileOutcomes :
           ProfileFetchSettles(o) /\ UNCHANGED <<oauthVars, apiVars, routerVars>>
    \/ ProfileReturn /\ UNCHANGED <<oauthVars, apiVars, routerVars>>
    \/ ApiFetch(1) /\ UNCHANGED <<profileVars, oauthVars, routerVars>>
    \/ StorageGetServed(1) /\ UNCHANGED <<profileVars, oauthVars, routerVars>>
    \/ GetSettingsResumes(1) /\ UNCHANGED <<profileVars, oauthVars, routerVars>>
    \/ \E o \in {Response(200, "object", Header(3), Header(1)), NetworkFailure} :
           FetchSettles(1, o) /\ UNCHANGED <<profileVars, oauthVars, routerVars>>
    \/ BackoffElapses(1) /\ UNCHANGED <<profileVars, oauthVars, routerVars>>
    \/ Return(1) /\ UNCHANGED <<profileVars, oauthVars, routerVars>>

ProfileSpec == Init /\ [][ProfileNext]_vars

\* the message router: requests of every type, among them save_settings with its
\* permission negotiation and its write
RouterNext ==
    \/ \E type \in RequestTypes : HandleMessage(type) /\ UNCHANGED <<profileVars, oauthVars, apiVars>>
    \/ \E m \in GatewaySaves : SaveSettings(m) /\ UNCHANGED <<profileVars, oauthVars, apiVars>>
    \/ PermissionContains /\ UNCHANGED <<profileVars, oauthVars, apiVars>>
    \/ \E g \in BOOLEAN : PermissionRequest(g) /\ UNCHANGED <<profileVars, oauthVars, apiVars>>
    \/ StorageSetLands
           /\ UNCHANGED <<profileVars, oauthVars, cachedSettings, cachedRateLimit, rlStored,
                          rlWrites, nowHalf, call>>
    \/ SaveResumes
           /\ UNCHANGED <<profileVars, oauthVars, store, cachedRateLimit, rlStored, rlWrites,
                          nowHalf, call>>

RouterSpec == Init /\ [][RouterNext]_vars

\* how the attempts of concurrent calls end: success without rate-limit headers,
\* success that reports the limit used up until a reset well ahead, a server error
\* and a timeout (both retried), and a 401 (not retried)
ConcurrentOutcomes ==
    {Response(200, "object", NoHeader, NoHeader),
     Response(200, "object", Header(0), Header(5)),
     Response(500, "object", NoHeader, NoHeader),
     Response(401, "object", NoHeader, NoHeader),
     Aborted(MSG_ABORTED)}

\* several gateway calls under way at once in the one service worker
ConcurrentNext ==
    \/ \E c \in Calls : ApiFetch(c) /\ UNCHANGED <<profileVars, oauthVars, routerVars>>
    \/ \E c \in Calls : StorageGetServed(c) /\ UNCHANGED <<profileVars, oauthVars, routerVars>>
    \/ \E c \in Calls : GetSettingsResumes(c) /\ UNCHANGED <<profileVars, oauthVars, routerVars>>
    \/ \E c \in Calls, o \in ConcurrentOutcomes :
           FetchSettles(c, o) /\ UNCHANGED <<profileVars, oauthVars, routerVars>>
    \/ \E c \in Calls : BackoffElapses(c) /\ UNCHANGED <<profileVars, oauthVars, routerVars>>
    \/ \E c \in Calls : Return(c) /\ UNCHANGED <<profileVars, oauthVars, routerVars>>
    \/ \E ok \in BOOLEAN : RateLimitWriteCompletes(ok) /\ UNCHANGED <<profileVars, oauthVars, routerVars>>

\* a configured client
ConcurrentStart == Init /\ store = Settings(SERVER, "key1", "")

ConcurrentSpec == ConcurrentStart /\ [][ConcurrentNext]_vars

\* how the attempts end where only the course of the calls matters: success, a
\* server error and a timeout (both retried)
TerminationOutcomes ==
    {Response(200, "object", NoHeader, NoHeader),
     Response(500, "object", NoHeader, NoHeader),
     Aborted(MSG_ABORTED)}

\* the steps of call c that are not of its own doing: the storage read is served
\* and its continuation runs, the fetch settles (the abort timer of
\* api-client.ts:191 ends one that does nothing else), the backoff timer fires
ReadStep(c) == StorageGetServed(c) /\ UNCHANGED <<profileVars, oauthVars, routerVars>>
ResumeStep(c) == GetSettingsResumes(c) /\ UNCHANGED <<profileVars, oauthVars, routerVars>>
SettleStep(c) ==
    (\E o \in TerminationOutcomes : FetchSettles(c, o))
       /\ UNCHANGED <<profileVars, oauthVars, routerVars>>
TimerStep(c) == BackoffElapses(c) /\ UNCHANGED <<profileVars, oauthVars, routerVars>>

\* several gateway calls under way at once, each started once or again
TerminationNext ==
    \/ \E c \in Calls : ApiFetch(c) /\ UNCHANGED <<profileVars, oauthVars, routerVars>>
    \/ \E c \in Calls : ReadStep(c)
    \/ \E c \in Calls : ResumeStep(c)
    \/ \E c \in Calls : SettleStep(c)
    \/ \E c \in Calls : TimerStep(c)
    \/ \E c \in Calls : Return(c) /\ UNCHANGED <<profileVars, oauthVars, routerVars>>

CallFairness ==
    \A c \in Calls : /\ WF_vars(ReadStep(c))
                     /\ WF_vars(ResumeStep(c))
                     /\ WF_vars(SettleStep(c))
                     /\ WF_vars(TimerStep(c))

TerminationSpec == ConcurrentStart /\ [][TerminationNext]_vars /\ CallFairness

\* test_connection requests one after the other, the attempts of the status call
\* ending in every way
TestNext ==
    \/ TestConnection(1) /\ UNCHANGED <<profileVars, oauthVars>>
    \/ StorageGetServed(1) /\ UNCHANGED <<profileVars, oauthVars, routerVars>>
    \/ GetSettingsResumes(1) /\ UNCHANGED <<profileVars, oauthVars, routerVars>>
    \/ \E o \in RetryOutcomes : FetchSettles(1, o) /\ UNCHANGED <<profileVars, oauthVars, routerVars>>
    \/ BackoffElapses(1) /\ UNCHANGED <<profileVars, oauthVars, routerVars>>
    \/ \E status \in StatusBodies : TestConnectionResumes(status) /\ UNCHANGED <<profileVars, oauthVars>>

TestSpec == Init /\ [][TestNext]_vars

\* the save_settings requests of SettingsSpec: every server URL, with no
\* credentials or with both
SettingsSaves ==
    {m \in SaveMessages : (Trim(m.apiKey) = "") = (Trim(m.encryptionSecret) = "")}

\* the router's save_settings with every kind of request, beside a gateway call
\* that fills the settings cache
SettingsNext ==
    \/ \E m \in SettingsSaves : SaveSettings(m) /\ UNCHANGED <<profileVars, oauthVars, apiVars>>
    \/ PermissionContains /\ UNCHANGED <<profileVars, oauthVars, apiVars>>
    \/ \E g \in BOOLEAN : PermissionRequest(g) /\ UNCHANGED <<profileVars, oauthVars, apiVars>>
    \/ StorageSetLands
           /\ UNCHANGED <<profileVars, oauthVars, cachedSettings, cachedRateLimit, rlStored,
                          rlWrites, nowHalf, call>>
    \/ SaveResumes
           /\ UNCHANGED <<profileVars, oauthVars, store, cachedRateLimit, rlStored, rlWrites,
                          nowHalf, call>>
    \/ ApiFetch(1) /\ UNCHANGED <<profileVars, oauthVars, routerVars>>
    \/ StorageGetServed(1) /\ UNCHANGED <<profileVars, oauthVars, routerVars>>
    \/ GetSettingsResumes(1) /\ UNCHANGED <<profileVars, oauthVars, routerVars>>
    \/ FetchSettles(1, Response(200, "object", NoHeader, NoHeader))
           /\ UNCHANGED <<profileVars, oauthVars, routerVars>>
    \/ Return(1) /\ UNCHANGED <<profileVars, oauthVars, routerVars>>

SettingsSpec == Init /\ [][SettingsNext]_vars



(***************************************************************************)
(*                               Claims                                    *)
(***************************************************************************)
PendingFlows == {f \in Flows : promise[f] = Pending}

\* C1: at most one sign-in flow is in flight: at most one unsettled sign-in
\* promise, and at most one sign-in tab of the coordinator that is open and has
\* not been asked to close - also between a startGoogleOAuth call and the
\* callback of its chrome.tabs.create.
C1_SingleFlight ==
    /\ Cardinality(PendingFlows) <= 1
    /\ Cardinality(openTabs \ closeRequested) <= 1

\* C2: a startGoogleOAuth call made while a flow is pending is rejected with the
\* "already in progress" error, asks for no tab, and leaves the pending session
\* (tracked tab, continuations, deadline timer) as it is.
C2_StartWhilePendingFails ==
    [][(nextFlow' # nextFlow /\ PendingFlows # {})
          => /\ promise'[nextFlow] = Rejected(MSG_IN_PROGRESS)
             /\ UNCHANGED <<pendingTabId, pendingResolve, pendingReject, pendingTimeout,
                            timers, creating, openTabs>>]_vars

\* a call that has failed after at least one fetch
FailedAfterFetch(cl) == cl.pc = "done" /\ cl.result.kind = "error" /\ cl.fetches > 0
NoRetryResponse(o) == o.kind = "response" /\ o.status \in {401, 429}

\* C3: a call whose attempts all fail, none with 401 or 429, makes exactly 3
\* fetches, waits 1000 ms after the first and 3000 ms after the second, and then
\* fails: no 4th fetch, no wait after the last one.
C3_ThreeAttempts ==
    \A c \in Calls :
        LET cl == call[c] IN
        /\ cl.fetches <= 3
        /\ cl.pc = "fetching" => Len(cl.waits) = cl.fetches - 1
        /\ cl.pc = "backoff" => Len(cl.waits) = cl.fetches /\ cl.fetches < 3
        /\ \A i \in 1..Len(cl.waits) : cl.waits[i] = IF i = 1 THEN 1000 ELSE 3000
        /\ (FailedAfterFetch(cl) /\ ~NoRetryResponse(cl.last))
              => cl.fetches = 3 /\ cl.waits = <<1000, 3000>>

C3_Witness ==
    /\ FailedAfterFetch(call[1])
    /\ call[1].last.status = 500
    /\ call[1].seen = {"response", "network", "abort"}
    /\ call[1].fetches = 3

\* C4: a response with status 401 or 429, on whichever attempt, ends the call at
\* once - no backoff, no further fetch - with code UNAUTHORIZED or RATE_LIMITED
\* and that status.
C4_NoRetryOn401And429 ==
    \A c \in Calls :
        LET cl == call[c] IN
        NoRetryResponse(cl.last)
           => /\ cl.pc = "done"
              /\ cl.result.kind = "error"
              /\ cl.result.err.status = cl.last.status
              /\ cl.result.err.code =
                     IF cl.last.status = 401 THEN UNAUTHORIZED ELSE RATE_LIMITED

Unconfigured(s) == s.serverUrl = EmptyStr \/ s.apiKey = ""
\* the rate-limit cache says the limit is used up and not yet reset
CacheExhausted ==
    /\ cachedRateLimit # NoRateLimit
    /\ cachedRateLimit.remaining <= 0
    /\ nowHalf < 2 * cachedRateLimit.resetAt

\* C5: a call that resolves settings with an empty server URL or an empty
\* credential fails with NOT_CONFIGURED without any fetch, also when the
\* rate-limit cache is exhausted.
C5_NotConfiguredFirst ==
    \A c \in Calls :
        LET cl == call[c] IN
        (cl.cfg # NoSettings /\ Unconfigured(cl.cfg))
           => /\ cl.pc = "done"
              /\ cl.result.kind = "error"
              /\ cl.result.err.code = NOT_CONFIGURED
              /\ cl.fetches = 0

C5_Witness ==
    /\ call[1].pc = "done"
    /\ call[1].cfg # NoSettings
    /\ Unconfigured(call[1].cfg)
    /\ CacheExhausted

\* C6: a call whose attempts were all aborted by the 15 s timer fails with an
\* error of code TIMEOUT.
C6_TimeoutClassified ==
    \A c \in Calls :
        LET cl == call[c] IN
        (FailedAfterFetch(cl) /\ cl.seen = {"abort"}) => cl.result.err.code = TIMEOUT

\* C7: when the retries are used up, the error says how the last attempt failed:
\* NETWORK_ERROR with status 0 and the fixed message for a network-level failure,
\* SERVER_ERROR with the response's status for a 5xx response.
C7_LastFailureClassified ==
    \A c \in Calls :
        LET cl == call[c] IN
        (FailedAfterFetch(cl) /\ cl.fetches = 3)
           => /\ cl.last.kind = "network"
                    => cl.result.err = APIError(MSG_UNREACHABLE, 0, NETWORK_ERROR)
              /\ (cl.last.kind = "response" /\ cl.last.status >= 500)
                    => /\ cl.result.err.code = SERVER_ERROR
                       /\ cl.result.err.status = cl.last.status

\* C8: every failure of a gateway call carries one of the six codes.
C8_EveryFailureHasCode ==
    \A c \in Calls :
        (call[c].pc = "done" /\ call[c].result.kind = "error")
           => call[c].result.err.code \in ErrorCodes

\* the step in which call c gets its settings and goes on from api-client.ts:141
Resolves(c) == call[c].pc \in {"idle", "read"} /\ call'[c].cfg # NoSettings
Configured(s) == s.serverUrl # EmptyStr /\ s.apiKey # ""
PreflightFailure(cl) ==
    /\ cl.pc = "done"
    /\ cl.result.kind = "error"
    /\ cl.result.err.code = RATE_LIMITED
    /\ cl.result.err.status = 429
    /\ cl.fetches = 0

\* C9, as claimed: a configured call that meets an exhausted rate-limit cache fails
\* with RATE_LIMITED (429) without any fetch and leaves the rate-limit cache and
\* the settings cache as they were.
C9_PreflightLeavesCaches ==
    [][\A c \in Calls :
          (Resolves(c) /\ Configured(call'[c].cfg) /\ CacheExhausted)
             => /\ PreflightFailure(call'[c])
                /\ cachedRateLimit' = cachedRateLimit
                /\ cachedSettings' = cachedSettings]_vars

\* C9, amended: as above, but the settings cache stays as it was only if it was
\* filled when the call started; an empty one has been filled with the settings
\* read from the store.
C9_PreflightShortCircuit ==
    [][\A c \in Calls :
          (Resolves(c) /\ Configured(call'[c].cfg) /\ CacheExhausted)
             => /\ PreflightFailure(call'[c])
                /\ cachedRateLimit' = cachedRateLimit
                /\ cachedSettings' =
                       IF cachedSettings = NoSettings THEN call'[c].cfg
                       ELSE cachedSettings]_vars

C9_Witness == PreflightFailure(call[1]) /\ Configured(call[1].cfg) /\ CacheExhausted

\* C10: a configured call is not stopped by the pre-flight test when nothing is
\* cached, or remaining > 0, or the time is at or past resetAt: it makes its
\* first fetch.
C10_PreflightLetsThrough ==
    [][\A c \in Calls :
          (/\ Resolves(c)
           /\ Configured(call'[c].cfg)
           /\ \/ cachedRateLimit = NoRateLimit
              \/ cachedRateLimit.remaining > 0
              \/ nowHalf >= 2 * cachedRateLimit.resetAt)
             => call'[c].pc = "fetching" /\ call'[c].fetches = 1]_vars

\* a first fetch is under way with a used-up limit whose reset time has come
C10_Witness ==
    /\ call[1].pc = "fetching"
    /\ call[1].attempt = 0
    /\ cachedRateLimit # NoRateLimit
    /\ cachedRateLimit.remaining <= 0
    /\ cachedRateLimit.resetAt > 0
    /\ nowHalf >= 2 * cachedRateLimit.resetAt

\* the step in which a fetch of call c ends with a 2xx response
Succeeds(c) ==
    call[c].pc = "fetching" /\ call'[c].pc = "done" /\ call'[c].result.kind = "ok"
\* a header that is there and whose text is a number
Numeric(h) == h.present /\ h.finite

\* C11: a 2xx response with X-RateLimit-Remaining: r and X-RateLimit-Reset: t puts
\* (r, t) into the rate-limit cache, nothing but a 2xx response with a rate-limit
\* header changes the cache, and a configured call that meets a cached (r, t) is
\* stopped with RATE_LIMITED exactly when r <= 0 and now < t and otherwise goes to
\* the network.
C11_RateLimitRoundTrip ==
    [][/\ \A c \in Calls :
            /\ (Succeeds(c) /\ Numeric(call'[c].last.remaining) /\ Numeric(call'[c].last.reset))
                  => cachedRateLimit' = RateLimit(call'[c].last.remaining.num,
                                                  call'[c].last.reset.num)
            /\ (Resolves(c) /\ Configured(call'[c].cfg) /\ cachedRateLimit # NoRateLimit)
                  => IF cachedRateLimit.remaining <= 0 /\ nowHalf < 2 * cachedRateLimit.resetAt
                     THEN PreflightFailure(call'[c])
                     ELSE call'[c].pc = "fetching" /\ call'[c].fetches = 1
       /\ (\A c \in Calls : ~(/\ Succeeds(c)
                              /\ \/ call'[c].last.remaining.present
                                 \/ call'[c].last.reset.present))
             => cachedRateLimit' = cachedRateLimit]_vars

\* a response with remaining 3 has been stored, a later one has brought the value
\* to 0 with the reset ahead, and the call after it has been stopped
C11_Witness ==
    /\ PreflightFailure(call[1])
    /\ cachedRateLimit = RateLimit(0, 1)
    /\ rlStored.rateLimitRemaining = Header(3)

\* C12: a 2xx response with at least one of the two rate-limit headers (its text a
\* number) leaves a rate-limit cache that exists and whose field for each header
\* that is there is that header's number, whatever was cached before.
C12_EitherHeaderUpdates ==
    [][\A c \in Calls :
          LET rem == call'[c].last.remaining
              rst == call'[c].last.reset
          IN  (/\ Succeeds(c)
               /\ rem.present \/ rst.present
               /\ rem.present => rem.finite
               /\ rst.present => rst.finite)
                 => /\ cachedRateLimit'.known
                    /\ rem.present => cachedRateLimit'.remaining = rem.num
                    /\ rst.present => cachedRateLimit'.resetAt = rst.num]_vars

\* C13: within a call the steps come in the order settings, not-configured check,
\* pre-flight, fetches: a fetch is made only with settings that are configured,
\* the first one in the step that passes the pre-flight test; the pre-flight
\* failure is for configured settings only; attempt k+1 is started by the timer of
\* the wait that followed attempt k and by nothing else, and never while an
\* attempt is in flight.
C13_StepsInOrder ==
    [][\A c \in Calls :
          LET a == call[c]
              b == call'[c]
          IN  /\ b.fetches > 0 => b.cfg # NoSettings /\ Configured(b.cfg)
              /\ PreflightFailure(b) => Configured(b.cfg)
              /\ (a.fetches = 0 /\ b.fetches > 0)
                    => Resolves(c) /\ ~CacheExhausted /\ b.fetches = 1 /\ b.pc = "fetching"
              /\ (a.fetches > 0 /\ b.fetches > 0 /\ b.fetches # a.fetches)
                    => /\ a.pc = "backoff"
                       /\ b.pc = "fetching"
                       /\ b.fetches = a.fetches + 1
                       /\ Len(a.waits) = a.fetches
                       /\ a.waits[a.fetches] = RETRY_BACKOFF_MS[a.fetches]
              \* attempts started and not ended
              /\ b.pc = "fetching" => b.fetches - Len(b.waits) = 1
              /\ b.pc = "backoff" => b.fetches - Len(b.waits) = 0]_vars

\* the third attempt is in flight, after both waits
C13_Witness ==
    /\ call[1].pc = "fetching"
    /\ call[1].fetches = 3
    /\ call[1].waits = RETRY_BACKOFF_MS
    /\ cachedSettings # NoSettings

\* C14: getUserProfile never raises: whatever its request ends with, its promise
\* resolves - with the parsed profile after a 2xx response, with null otherwise;
\* it puts at most one request on the network, builds it from its two arguments,
\* and leaves the settings cache and the rate-limit cache alone.
C14_ProfileNeverRaises ==
    [][/\ profile'.pc = "done"
          => /\ profile'.result.kind = "resolved"
             /\ profile'.result.value = "null"
                   <=> ~(profile'.last.kind = "response" /\ IsOk(profile'.last.status))
       /\ profile'.fetches <= 1
       /\ profile'.req # NoRequest
             => /\ profile'.req.base = StripSlash(profile'.serverUrl)
                /\ profile'.req.authorization = profile'.apiKey
       /\ profile' # profile
             => UNCHANGED <<store, cachedSettings, cachedRateLimit, rlWrites>>]_vars

\* the server URL save_settings hands to ensureServerPermission for message m
ServerUrlOf(m) == StripSlash(Trim(m.serverUrl))
\* a save_settings request is being handled past its synchronous part
SaveInHand == save.pc \in {"contains", "request", "writing", "written"}

\* C15: the pattern derived from a server URL is <protocol>//<host>/*: it has the
\* URL's scheme and host name, the port only when the parsed URL's host has one,
\* and nothing of the path; a string that is no URL or whose scheme is neither
\* http nor https gets an error response instead, and no permission check or
\* prompt is ever issued for it.
C15_OriginPattern ==
    [][/\ \A m \in SaveMessages :
            LET u == ServerUrlOf(m)
                r == originPatternFromServerUrl(u)
            IN  /\ (u # EmptyStr /\ u.scheme = "")
                      => ~r.ok /\ r.message = "Invalid server URL. Use a full URL like https://api.context-vault.com"
                /\ (u.scheme # "" /\ u.scheme \notin {"http:", "https:"})
                      => ~r.ok /\ r.message = "Server URL must use http:// or https://"
                /\ u.scheme \in {"http:", "https:"}
                      => /\ r.ok
                         /\ r.origin = originPatternFromServerUrl([u EXCEPT !.path = <<>>]).origin
       /\ SaveInHand'
             => LET u == save'.settings.serverUrl IN
                /\ u.scheme \in {"http:", "https:"}
                /\ Len(save'.origin) = 4
                /\ save'.origin[1] = u.scheme
                /\ save'.origin[2] = "//"
                /\ save'.origin[3].name = u.host
                /\ save'.origin[3].port =
                       IF (u.scheme = "https:" /\ u.port = "443")
                          \/ (u.scheme = "http:" /\ u.port = "80") THEN "" ELSE u.port
                /\ save'.origin[4] = "/*"
       \* a request that is answered in its synchronous part
       /\ (save = SaveIdle /\ save' = SaveIdle /\ saveResponse' # saveResponse)
             => /\ saveResponse'.type = "error"
                /\ permissions' = permissions]_vars

\* the example of the specification: https://api.example.com/x
C15_Witness ==
    /\ save.pc = "contains"
    /\ save.settings.serverUrl = Str("https:", "api.example.com", <<"/", "x">>)
    /\ save.origin = <<"https:", "//", [name |-> "api.example.com", port |-> ""], "/*">>

\* C16: ensureServerPermission returns without a prompt when the pattern is granted,
\* otherwise prompts once; it goes on to the write only with the pattern granted,
\* and a declined prompt ends the request with the "Permission denied for
\* <origin>" error that names the pattern.
C16_PromptOnce ==
    [][save' # save
          => /\ (save.pc = "contains" /\ save.origin \in permissions)
                   => save'.pc = "writing" /\ save'.prompts = 0
             /\ (save.pc = "contains" /\ save.origin \notin permissions)
                   => save'.pc = "request" /\ save'.prompts = 1
             /\ save.pc = "request"
                   => \/ /\ save'.pc = "writing"
                         /\ save'.prompts = 1
                         /\ save.origin \in permissions'
                      \/ /\ save' = SaveIdle
                         /\ saveResponse' = ErrorResponse(MSG_PERMISSION_DENIED(save.origin))
                         /\ permissions' = permissions
             /\ save'.pc \in {"writing", "written"}
                   => save'.origin \in permissions' /\ save'.prompts <= 1]_vars

\* the write is about to be made after a prompt that the user granted
C16_Witness == save.pc = "writing" /\ save.prompts = 1

\* C17: the durable store is written only by a save_settings request whose
\* ensureServerPermission has succeeded for the server URL that is written, and a
\* request answered with an error leaves store, settings cache and badge alone.
C17_NoWriteWithoutPermission ==
    [][/\ store' # store
          => /\ save.pc = "writing"
             /\ store' = save.settings
             /\ originPatternFromServerUrl(store'.serverUrl).ok
             /\ originPatternFromServerUrl(store'.serverUrl).origin \in permissions
       /\ (saveResponse' # saveResponse /\ saveResponse'.type = "error")
          => UNCHANGED <<store, cachedSettings, badge>>]_vars

\* a declined request has been answered with an error while settings saved earlier
\* are stored and cached
C17_Witness ==
    /\ saveResponse.type = "error"
    /\ saveResponse.message = MSG_PERMISSION_DENIED(
           <<"https:", "//", [name |-> "api.example.com", port |-> ""], "/*">>)
    /\ save = SaveIdle
    /\ store.serverUrl = SERVER
    /\ cachedSettings # NoSettings

\* the URL is the callback URL: host and path are exactly the expected ones
IsCallback(u) == u.kind = "url" /\ u.host = CALLBACK_HOST /\ u.pathname = CALLBACK_PATH

\* C18: while a flow is pending, a tab-update event for the tracked tab with the
\* callback URL resolves a pending flow and asks for the tab to be closed; every
\* other tab-update event leaves the pending flows pending and the tracked tab,
\* the continuations and the deadline timer as they are.
C18_CallbackResolves ==
    [][\A t \in 1..ForeignTab, u \in Urls :
          (TabUpdated(t, u) /\ PendingFlows # {} /\ pendingTabId # NoTab)
             => IF t = pendingTabId /\ IsCallback(u)
                THEN /\ \E f \in PendingFlows : promise'[f].state = "resolved"
                     /\ t \in closeRequested'
                ELSE UNCHANGED <<promise, pendingTabId, pendingResolve, pendingReject,
                                 pendingTimeout, timers>>]_vars

\* C19: the removal of the tracked tab of a pending flow rejects that flow with
\* "cancelled", the deadline of a pending flow rejects it with "timed out", and a
\* startGoogleOAuth made when no flow is pending any more, after a flow ended in
\* one of these two ways, is accepted: a new pending flow whose tab is asked for.
C19_CancelAndTimeoutFreeSlot ==
    [][/\ \A f \in Flows :
            (TabRemoved(TabOf(f)) /\ promise[f] = Pending /\ pendingTabId = TabOf(f))
               => promise'[f] = Rejected(MSG_CANCELLED)
       /\ \A f \in Flows :
            (DeadlineFires(f) /\ promise[f] = Pending)
               => promise'[f] = Rejected(MSG_TIMED_OUT)
       /\ (/\ StartGoogleOAuth
           /\ PendingFlows = {}
           /\ \E f \in Flows : promise[f] \in {Rejected(MSG_CANCELLED), Rejected(MSG_TIMED_OUT)})
             => promise'[nextFlow] = Pending /\ nextFlow \in creating']_vars

\* flow f has reached RESOLVED or REJECTED
Settled(f) == promise[f].state \in {"resolved", "rejected"} /\ promise[f] # Rejected(MSG_IN_PROGRESS)
Registered(f) == \E i \in 1..Len(listeners) : listeners[i] = f

\* C20: once a flow is resolved or rejected and its tab is gone (never created, or
\* closed and its removal event delivered), nothing of the flow is left: its
\* deadline timer is not armed, its tab-removal listener is not registered, and
\* the pending references do not refer to it.
C20_TerminalTeardown ==
    \A f \in Flows :
        (Settled(f) /\ f \notin creating /\ TabOf(f) \notin openTabs)
           => /\ f \notin timers
              /\ ~Registered(f)
              /\ pendingTabId # TabOf(f)
              /\ pendingResolve # f
              /\ pendingReject # f


(***************************************************************************)
(* C21: racing terminators.  Of the callback navigation, the tab-removal   *)
(* event and the deadline timer of a flow, only the first that finds the   *)
(* flow pending transitions it: no flow's resolve()/reject() is invoked    *)
(* more than once in all, and an event that arrives when the flow is       *)
(* settled, or when no continuation is held, settles nothing and invokes   *)
(* nothing.                                                                *)
(***************************************************************************)
Terminator ==
    \/ \E t \in 1..ForeignTab, u \in RaceUrls : TabUpdated(t, u)
    \/ \E t \in 1..ForeignTab : TabRemoved(t)
    \/ \E f \in Flows : DeadlineFires(f)

\* a step that settles nothing that is settled, and nothing at all when no
\* continuation is held
NoSecondSettlement ==
    /\ \A f \in Flows :
          Settled(f) => promise'[f] = promise[f] /\ settleCalls'[f] = settleCalls[f]
    /\ (pendingResolve = NoFlow /\ pendingReject = NoFlow)
          => promise' = promise /\ settleCalls' = settleCalls

C21_SettledOnce ==
    /\ [](\A f \in Flows : settleCalls[f] <= 1)
    /\ [][NoSecondSettlement \/ ~Terminator]_vars

\* flow 1 was resolved by its callback navigation, and the removal of its tab, which
\* the coordinator asked for, has been delivered as well
C21_Witness ==
    /\ promise[1].state = "resolved"
    /\ settleCalls[1] = 1
    /\ TabOf(1) \notin openTabs
    /\ 1 \notin creating


(***************************************************************************)
(* C22: a callback navigation of the tracked tab whose fragment has no     *)
(* token, made while a flow is pending, resolves a pending flow with the   *)
(* empty credential (and the fragment's encryption secret), rejects no     *)
(* flow, asks for the tab to be closed and tears the session down.         *)
(***************************************************************************)
C22_EmptyTokenResolves ==
    [][\A t \in 1..ForeignTab, u \in Urls :
          (/\ TabUpdated(t, u)
           /\ PendingFlows # {}
           /\ t = pendingTabId
           /\ IsCallback(u)
           /\ u.hashToken = "")
             => /\ \E f \in PendingFlows : promise'[f] = Resolved("", u.hashSecret)
                /\ \A f \in Flows : promise'[f].state = "rejected" => promise[f] = promise'[f]
                /\ t \in closeRequested'
                /\ pendingTabId' = NoTab
                /\ pendingResolve' = NoFlow
                /\ pendingReject' = NoFlow
                /\ pendingTimeout' = NoFlow]_vars


(***************************************************************************)
(* C23: the credential and the secret of a resolved flow come from the     *)
(* fragment of the callback URL only.  Whenever a tab-update event         *)
(* resolves a flow, the URL is the callback URL and the flow's apiKey is   *)
(* the fragment's token ("" when the fragment has none) and its secret the *)
(* fragment's encryption_secret, whatever the query string holds: a token  *)
(* that is only in the query string gives the empty credential.            *)
(***************************************************************************)
C23_FragmentOnly ==
    [][\A f \in Flows :
          (promise[f] = Pending /\ promise'[f].state = "resolved")
             => \A t \in 1..ForeignTab, u \in FragmentUrls :
                   TabUpdated(t, u) => /\ IsCallback(u)
                                       /\ promise'[f] = Resolved(u.hashToken, u.hashSecret)]_vars

\* a flow resolved with the empty credential: the callback URL had its token in
\* the query string only, or none
C23_Witness ==
    \E f \in Flows : promise[f] = Resolved("", "sec")


(***************************************************************************)
(* C24: when the creation of the tab of a pending flow fails, that flow is *)
(* rejected with "Failed to open sign-in tab.", its deadline timer is      *)
(* cleared, no tab-removal listener is registered for it, and the          *)
(* coordinator is idle again: no tab is tracked, no continuation and no    *)
(* timer is held, so that the next startGoogleOAuth is accepted.           *)
(***************************************************************************)
C24_FailedOpenRejects ==
    [][\A f \in Flows :
          (TabCreated(f, FALSE) /\ promise[f] = Pending)
             => /\ promise'[f] = Rejected(MSG_FAILED_OPEN)
                /\ f \notin timers'
                /\ ~Registered(f)'
                /\ pendingTabId' = NoTab
                /\ pendingResolve' = NoFlow
                /\ pendingReject' = NoFlow
                /\ pendingTimeout' = NoFlow]_vars


(***************************************************************************)
(* C25: settings-cache coherence.  Once a save_settings request has        *)
(* returned its settings response (and no other save is under way), the    *)
(* settings cache is empty or holds the values that response reports as    *)
(* persisted, whatever store read of getSettings was in flight during the  *)
(* save, and a gateway call started then resolves exactly those values.    *)
(***************************************************************************)
SaveReturned == save = SaveIdle /\ saveResponse.type = "settings"

C25_SettingsCacheCoherent ==
    /\ [](SaveReturned /\ cachedSettings # NoSettings
             => cachedSettings = saveResponse.settings)
    /\ [][\A c \in Calls :
             (ApiFetch(c) /\ SaveReturned /\ call'[c].cfg # NoSettings)
                => call'[c].cfg = saveResponse.settings]_vars


C30_CacheOnlyOn2xx ==
    [][/\ \A c \in Calls, o \in HeaderOutcomes :
            (FetchSettles(c, o) /\ ~(o.kind = "response" /\ IsOk(o.status)))
               => cachedRateLimit' = cachedRateLimit
       /\ \A c \in Calls :
            (Resolves(c) /\ call'[c].pc = "done") => cachedRateLimit' = cachedRateLimit
       /\ cachedRateLimit' # cachedRateLimit
             => \E c \in Calls, o \in HeaderOutcomes :
                   FetchSettles(c, o) /\ o.kind = "response" /\ IsOk(o.status)]_vars

\* a call has failed on a 429 response that carried rate-limit headers, and the
\* cache does not hold them
C30_Witness ==
    /\ call[1].pc = "done"
    /\ call[1].result.kind = "error"
    /\ call[1].last.status = 429
    /\ call[1].last.remaining = Header(3)
    /\ cachedRateLimit # RateLimit(3, 1)


(***************************************************************************)
(* C27: the router accepts every request type of its contract, sign-in and *)
(* sign-out among them: no request of a contract type enters the default   *)
(* branch of the switch, whose response is "Unknown message type".         *)
(***************************************************************************)
C27_EveryContractTypeHandled ==
    routed.request \in RequestTypes
       => routed.branch # "default" /\ routed.response # ErrorResponse(MSG_UNKNOWN_TYPE)


(***************************************************************************)
(* C28: every sign-in flow that is started settles.  With the deadline     *)
(* timers firing and the tab-creation callbacks delivered, a promise that  *)
(* startGoogleOAuth returned pending is eventually resolved or rejected,   *)
(* whatever startGoogleOAuth calls and tab events there are.               *)
(***************************************************************************)
C28_EveryFlowSettles ==
    \A f \in Flows : (promise[f] = Pending) ~> (promise[f] # Pending)


(***************************************************************************)
(* C29: on every rejection path the session is torn down before the        *)
(* caller's failure continuation runs.  When the reject() of a pending     *)
(* flow is invoked with "timed out", "cancelled" or "failed to open", the  *)
(* session's timer is cleared and the tab and continuation references are  *)
(* null, so that the guard of a startGoogleOAuth made from the             *)
(* continuation passes; on the timeout path the closing of the tracked     *)
(* tab, if it is still open, has been requested by then.                   *)
(***************************************************************************)
C29_TeardownBeforeContinuation ==
    [][\A f \in Flows :
          (promise[f] = Pending /\ promise'[f].state = "rejected")
             => LET v == observed'[f] IN
                /\ promise'[f].message \in {MSG_TIMED_OUT, MSG_CANCELLED, MSG_FAILED_OPEN}
                /\ v.invoked
                /\ v.tmo = NoFlow
                /\ pendingTimeout \notin v.timers
                /\ v.tab = NoTab
                /\ v.res = NoFlow
                /\ v.rej = NoFlow
                /\ (promise'[f].message = MSG_TIMED_OUT /\ pendingTabId \in openTabs)
                      => pendingTabId \in v.closeReq]_vars

\* a flow was rejected by its deadline while its tab was open: its continuation
\* found the session torn down and the closing of the tab requested
C29_Witness ==
    \E f \in Flows :
        /\ promise[f] = Rejected(MSG_TIMED_OUT)
        /\ observed[f].invoked
        /\ observed[f].tab = NoTab
        /\ TabOf(f) \in observed[f].closeReq


(***************************************************************************)
(* C36: a deadline timer affects only the flow that armed it.  A pending   *)
(* flow is rejected with "timed out" only by the firing of its own timer,  *)
(* and whenever the coordinator is idle (no tab tracked, no continuation   *)
(* and no timer handle held) no deadline timer is armed.                   *)
(***************************************************************************)
CoordinatorIdle ==
    /\ pendingTabId = NoTab
    /\ pendingResolve = NoFlow
    /\ pendingReject = NoFlow
    /\ pendingTimeout = NoFlow

C36_TimerOfItsFlow ==
    /\ [](CoordinatorIdle => timers = {})
    /\ [][\A f \in Flows :
             (promise[f] = Pending /\ promise'[f] = Rejected(MSG_TIMED_OUT))
                => DeadlineFires(f)]_vars


(***************************************************************************)
(* C37: only the tracked tab can complete or cancel a flow.  A navigation  *)
(* of a tab that is not the tracked one, to the callback URL or anywhere   *)
(* else, resolves no flow, and the removal of a tab that is not the        *)
(* tracked one (a tab left over from an earlier flow, or a tab of somebody *)
(* else) rejects no flow: such an event leaves every promise, the tracked  *)
(* tab, the continuations and the timer as they are.                       *)
(***************************************************************************)
OtherTabEvent ==
    \/ \E t \in 1..ForeignTab, u \in FragmentUrls : t # pendingTabId /\ TabUpdated(t, u)
    \/ \E t \in 1..ForeignTab : t # pendingTabId /\ TabRemoved(t)

C37_OnlyTrackedTab ==
    [][UNCHANGED <<promise, settleCalls, pendingTabId, pendingResolve, pendingReject,
                   pendingTimeout, timers>>
       \/ ~OtherTabEvent]_vars

\* the second flow is pending on its tab, after the tab left over from the first
\* flow, whose tab-removal listener is still registered, has been removed
C37_Witness ==
    /\ promise[2] = Pending
    /\ pendingTabId = TabOf(2)
    /\ pendingResolve = 2
    /\ promise[1].state = "resolved"
    /\ TabOf(1) \notin openTabs
    /\ Registered(1)


(***************************************************************************)
(* C39: the rate-limit cache is well formed.  In every state it is absent  *)
(* or holds two numbers.  On a 2xx response, a header whose text is not a  *)
(* finite number leaves the cache as it was; a remaining header alone      *)
(* keeps the cached reset time, 0 when nothing was cached; a reset header  *)
(* alone keeps the cached remaining count.                                 *)
(***************************************************************************)
WellFormedRateLimit ==
    \/ cachedRateLimit = NoRateLimit
    \/ /\ cachedRateLimit.known
       /\ cachedRateLimit.remaining \in Int
       /\ cachedRateLimit.resetAt \in Int

SingleHeaderKeepsOther ==
    \A c \in Calls :
       LET rem == call'[c].last.remaining
           rst == call'[c].last.reset
       IN  Succeeds(c) =>
             /\ ((rem.present /\ ~rem.finite) \/ (rst.present /\ ~rst.finite))
                   => cachedRateLimit' = cachedRateLimit
             /\ (Numeric(rem) /\ ~rst.present)
                   => cachedRateLimit' =
                         RateLimit(rem.num, IF cachedRateLimit.known
                                            THEN cachedRateLimit.resetAt ELSE 0)
             /\ (Numeric(rst) /\ ~rem.present /\ cachedRateLimit.known)
                   => cachedRateLimit' = RateLimit(cachedRateLimit.remaining, rst.num)

Gets2xx(c) ==
    /\ call[c].pc = "fetching"
    /\ call'[c] # call[c]
    /\ call'[c].last.kind = "response"
    /\ IsOk(call'[c].last.status)

StopsAt2xx ==
    \A c \in Calls :
       /\ Gets2xx(c) =>
             /\ call'[c].pc = "done"
             /\ call'[c].fetches = call[c].fetches
             /\ call'[c].waits = call[c].waits
             /\ call'[c].result = IF call'[c].last.body = NotJson
                                  THEN Err(JsonSyntaxError) ELSE Ok
       /\ call[c].pc = "done" => call'[c] \in {call[c], IdleCall}

C33_StopsAtFirstSuccess == [][StopsAt2xx]_vars

\* the third attempt of a call has succeeded after a timeout and another failure
C33_Witness ==
    /\ call[1].pc = "done"
    /\ call[1].result = Ok
    /\ call[1].fetches = 3
    /\ "abort" \in call[1].seen
    /\ call[1].last.status = 200

\* the statement as claimed: every 2xx response makes the call return the parsed
\* body
C33_Always2xxReturnsBody ==
    [][\A c \in Calls : Gets2xx(c) => call'[c].result = Ok]_vars


(***************************************************************************)
(* C34: every request of a gateway call carries Authorization: Bearer with *)
(* the credential the call resolved, which is not empty, and carries       *)
(* X-Vault-Secret, with the secret the call resolved, exactly when that    *)
(* secret is not empty; the headers of a retry are those of the first      *)
(* attempt.                                                                *)
(***************************************************************************)
HeaderValues(cl, name) == {h[2] : h \in {g \in cl.req.headers : g[1] = name}}

AuthHeaders ==
    \A c \in Calls :
       call[c].pc \in {"fetching", "backoff"} =>
          /\ call[c].cfg.apiKey # ""
          /\ HeaderValues(call[c], "Authorization") = {<<"Bearer", call[c].cfg.apiKey>>}
          /\ HeaderValues(call[c], "X-Vault-Secret") =
                IF call[c].req.vaultSecret # "" THEN {<<call[c].req.vaultSecret>>} ELSE {}
          /\ call[c].req.vaultSecret \in {store.encryptionSecret,
                                          cachedSettings.encryptionSecret}

SameHeadersOnRetry ==
    \A c \in Calls :
       (call[c].pc \in {"fetching", "backoff"} /\ call'[c].pc \in {"fetching", "backoff"})
          => call'[c].req = call[c].req

C34_AuthHeadersOnEveryRequest == []AuthHeaders /\ [][SameHeadersOnRetry]_vars

\* the third request of a call whose settings hold no secondary secret is in
\* flight
C34_Witness ==
    /\ call[1].pc = "fetching"
    /\ call[1].fetches = 3
    /\ call[1].req.headers = {<<"Content-Type", <<"application/json">>>>,
                              <<"Authorization", <<"Bearer", "key1">>>>}


(***************************************************************************)
(* C38: one gateway call uses one settings snapshot.  The server URL and   *)
(* the credential of a call's requests, and the secondary secret of their  *)
(* X-Vault-Secret header, are the three fields of one settings value that  *)
(* was persisted, also when a save_settings request writes the store and   *)
(* clears the settings cache while the call is under way.                  *)
(***************************************************************************)
\* the settings values the store can hold
PersistedValues ==
    InitialStores
    \cup {Settings(StripSlash(Trim(m.serverUrl)), Trim(m.apiKey), Trim(m.encryptionSecret)) :
             m \in SettingsSaves}

C38_OneSettingsSnapshot ==
    \A c \in Calls :
       call[c].req.sent =>
          \E v \in PersistedValues :
             /\ call[c].cfg = v
             /\ call[c].req.base = StripSlash(v.serverUrl)
             /\ call[c].req.authorization = v.apiKey
             /\ call[c].req.vaultSecret = v.encryptionSecret
             /\ call[c].req.headers = RequestHeaders(v.apiKey, v.encryptionSecret)

\* a request is in flight with the settings read before a save_settings wrote
\* other ones and cleared the cache
C38_Witness ==
    /\ call[1].pc = "fetching"
    /\ call[1].req.authorization = "key1"
    /\ store.apiKey = "key2"
    /\ cachedSettings = NoSettings
    /\ saveResponse.type = "settings"


(***************************************************************************)
(* C31: no network attempt is issued while the cache says the limit is     *)
(* used up.  In the step in which a call issues a fetch, its first one or  *)
(* a retry after a backoff, the rate-limit cache does not hold a remaining *)
(* count <= 0 with the time before the reset, whatever the other calls     *)
(* under way have done.                                                    *)
(***************************************************************************)
\* the step in which call c issues a fetch
IssuesFetch(c) == call'[c].fetches > call[c].fetches

C31_NoAttemptWhileExhausted ==
    [][\A c \in Calls : IssuesFetch(c) => ~rateLimitExhausted(cachedRateLimit, nowHalf)]_vars


(***************************************************************************)
(* C32: every gateway call terminates.  With every storage read served,    *)
(* every fetch ending (response, network error or abort) and every backoff *)
(* timer firing, a call that has started returns or throws, after at most  *)
(* 3 fetches.  The attempts and the backoff of a call are its own: a step  *)
(* of one call leaves the record of every other call as it is, and a call  *)
(* waits or retries only after a failure of its own attempt.               *)
(***************************************************************************)
\* call c has started and has not returned or thrown
Running(c) == call[c].pc \in {"reading", "read", "fetching", "backoff"}

OwnRetries ==
    /\ \A c, d \in Calls :
          (c # d /\ call'[c] # call[c]) => call'[d] = call[d]
    /\ \A c \in Calls :
          /\ call'[c].fetches <= Len(RETRY_BACKOFF_MS) + 1
          /\ (Running(c) /\ call'[c].pc = "backoff" /\ call[c].pc # "backoff")
                => /\ call[c].pc = "fetching"
                   /\ call'[c].waits = Append(call[c].waits,
                                              RETRY_BACKOFF_MS[call[c].fetches])
                   /\ ~(call'[c].last.kind = "response" /\ IsOk(call'[c].last.status))

Answers == connection.pc = "waiting" /\ connection'.pc = "idle"

ConnectionResultOnly ==
    Answers =>
       LET r == call[connection.call].result
           resp == connection'.response
       IN  /\ resp.type = "connection_result"
           /\ resp.success => r = Ok
           /\ badge' = updateBadge(resp.success)
           /\ r.kind = "error" => ~resp.success /\ resp.error = r.err.message

ClassifiedResult ==
    Answers =>
       LET r == call[connection.call].result
       IN  r.kind = "error" =>
              /\ connection'.response.code = r.err.code
              /\ connection'.response.code \in ErrorCodes

C35_TestConnectionAlwaysAnswers == [][ConnectionResultOnly /\ ClassifiedResult]_vars

=============================================================================
